---- MODULE Spec2Model ----
(***************************************************************************)
(* A model of the protopy codec engine (src/protopy/primitives.py,         *)
(* src/protopy/containers.py, src/coders.py, src/proxy.py).                *)
(*                                                                         *)
(* Python values are modelled as records that carry a kind field k.        *)
(* Python's integers are unbounded while TLC's are 32 bits wide, so a      *)
(* Python integer is a sign and a magnitude written in base-256 digits,    *)
(* least significant digit first; the arithmetic the coders do on them     *)
(* (comparison, 2 ** n, +, -) is done on that representation.              *)
(* A failed call (a Python exception) is a result record with ok = FALSE   *)
(* and the exception's class in err.                                       *)
(***************************************************************************)
EXTENDS Integers, Sequences, FiniteSets, TLC

VARIABLES
  pc,      \* the step the run is at
  args,    \* the arguments the coder under test was constructed from
  coder,   \* the coder under test
  value,   \* the value handed to the coder
  extra,   \* how the source was prepared: bytes cut from or added to its end
  stream,  \* the stream written to, then read from
  wrote,   \* the result of the write
  got,     \* the result of the read
  creation_counter,  \* Member.creation_counter
  attrs,   \* the Member declarations of the class body being compiled
  declared,          \* the names of attrs in the sequence they were declared
  members, \* the result of compiling attrs: the class's members, in order
  catalog, \* the coders and classes the loaded test modules have made
  _parent_choice  \* the _parent_choice slot of every Variant that was made

codecVars == <<args, coder, value, extra, stream, wrote, got>>
schemaVars == <<creation_counter, attrs, declared, members>>
classVars == <<catalog, _parent_choice>>
vars == <<pc, codecVars, schemaVars, classVars>>

(***************************************************************************)
(* Python values                                                           *)
(***************************************************************************)
None == [k |-> "none"]

ByteRadix == 256

Max(a, b) == IF a >= b THEN a ELSE b
Min(a, b) == IF a <= b THEN a ELSE b

RECURSIVE Digits(_)
\* The base-256 digits of a natural number n, least significant first.
Digits(n) == IF n = 0 THEN <<>> ELSE <<n % ByteRadix>> \o Digits(n \div ByteRadix)

RECURSIVE Strip(_)
\* A digit string without its most significant zeros.
Strip(d) ==
  IF d # <<>> /\ d[Len(d)] = 0 THEN Strip(SubSeq(d, 1, Len(d) - 1)) ELSE d

\* The Python integer n, for n a (small) integer of the model.
PyInt(n) == [k |-> "int", neg |-> n < 0, mag |-> Digits(IF n < 0 THEN 0 - n ELSE n)]

RECURSIVE IntOfMag(_)
IntOfMag(d) == IF d = <<>> THEN 0 ELSE d[1] + ByteRadix * IntOfMag(Tail(d))

\* The model integer a (small) Python integer stands for.
IntOf(x) == IF x.neg THEN 0 - IntOfMag(x.mag) ELSE IntOfMag(x.mag)

\* a < b on magnitudes (stripped digit strings).
MagLT(a, b) ==
  \/ Len(a) < Len(b)
  \/ /\ Len(a) = Len(b)
     /\ \E i \in 1..Len(a) :
          /\ a[i] < b[i]
          /\ \A j \in (i + 1)..Len(a) : a[j] = b[j]

\* Python's x < y and x <= y on integers.
IntLT(x, y) ==
  CASE x.neg /\ ~y.neg -> TRUE
    [] ~x.neg /\ y.neg -> FALSE
    [] ~x.neg /\ ~y.neg -> MagLT(x.mag, y.mag)
    [] OTHER -> MagLT(y.mag, x.mag)

IntLE(x, y) == ~IntLT(y, x)

Digit(d, i) == IF i <= Len(d) THEN d[i] ELSE 0

RECURSIVE MagAddFrom(_, _, _, _)
MagAddFrom(a, b, i, carry) ==
  IF i > Max(Len(a), Len(b))
  THEN IF carry = 0 THEN <<>> ELSE <<carry>>
  ELSE LET s == Digit(a, i) + Digit(b, i) + carry
       IN  <<s % ByteRadix>> \o MagAddFrom(a, b, i + 1, s \div ByteRadix)

MagAdd(a, b) == MagAddFrom(a, b, 1, 0)

RECURSIVE MagSubFrom(_, _, _, _)
MagSubFrom(a, b, i, borrow) ==
  IF i > Len(a)
  THEN <<>>
  ELSE LET s == Digit(a, i) - Digit(b, i) - borrow
       IN  IF s < 0
           THEN <<s + ByteRadix>> \o MagSubFrom(a, b, i + 1, 1)
           ELSE <<s>> \o MagSubFrom(a, b, i + 1, 0)

\* a - b on magnitudes, for a >= b.
MagSub(a, b) == Strip(MagSubFrom(a, b, 1, 0))

MkInt(neg, mag) == [k |-> "int", neg |-> neg /\ mag # <<>>, mag |-> mag]

\* Python's x + y, -x and x - y on integers.
IntAdd(x, y) ==
  IF x.neg = y.neg
  THEN MkInt(x.neg, MagAdd(x.mag, y.mag))
  ELSE IF MagLT(x.mag, y.mag)
       THEN MkInt(y.neg, MagSub(y.mag, x.mag))
       ELSE MkInt(x.neg, MagSub(x.mag, y.mag))

IntNeg(x) == MkInt(~x.neg, x.mag)

IntSub(x, y) == IntAdd(x, IntNeg(y))

\* Python's 2 ** n, for n >= 0.
Pow2(n) == MkInt(FALSE, [i \in 1..(n \div 8) |-> 0] \o <<2 ^ (n % 8)>>)

(***************************************************************************)
(* Streams (cStringIO.StringIO): a buffer and a position.                  *)
(***************************************************************************)
StringIO(buf) == [buf |-> buf, pos |-> 0]

\* stream.read(n): at most n bytes from the position, which moves past them.
stream_read(s, n) ==
  LET last == Min(Len(s.buf), s.pos + n)
  IN  [data |-> SubSeq(s.buf, s.pos + 1, last),
       stream |-> [buf |-> s.buf, pos |-> last]]

\* stream.read(): every byte from the position to the end.
stream_read_all(s) == stream_read(s, Len(s.buf) - s.pos)

\* stream.write(data): data replaces or extends the buffer at the position.
stream_write(s, data) ==
  [buf |-> SubSeq(s.buf, 1, s.pos) \o data
             \o SubSeq(s.buf, s.pos + Len(data) + 1, Len(s.buf)),
   pos |-> s.pos + Len(data)]

\* stream.getvalue()
getvalue(s) == s.buf

Reverse(q) == [i \in 1..Len(q) |-> q[Len(q) + 1 - i]]

(***************************************************************************)
(* Results of calls.  A call that raises has ok = FALSE and names the      *)
(* exception; a write keeps the stream as the failed call left it.         *)
(***************************************************************************)
Encoded(bytes) == [ok |-> TRUE, bytes |-> bytes, err |-> "none"]
EncodeError(e) == [ok |-> FALSE, bytes |-> <<>>, err |-> e]

\* ret tells what the call returned: a byte count n, or None.
Written(n, s) == [ok |-> TRUE, ret |-> "int", n |-> n, stream |-> s, err |-> "none"]
WrittenNone(s) == [ok |-> TRUE, ret |-> "None", n |-> 0, stream |-> s, err |-> "none"]
WriteError(e, s) == [ok |-> FALSE, ret |-> "raised", n |-> 0, stream |-> s, err |-> e]

Decoded(v, rest) == [ok |-> TRUE, val |-> v, rest |-> rest, err |-> "none"]
DecodeError(e) == [ok |-> FALSE, val |-> None, rest |-> <<>>, err |-> e]

ReadOk(v, s) == [ok |-> TRUE, val |-> v, stream |-> s, err |-> "none"]
ReadError(e, s) == [ok |-> FALSE, val |-> None, stream |-> s, err |-> e]

\* A call that never returns.
Hang == "hang"

(***************************************************************************)
(* UnsignedInteger, SignedInteger, Boolean (primitives.py)                 *)
(***************************************************************************)
MSB_FIRST == "big"
LSB_FIRST == "little"
ByteOrder == {MSB_FIRST, LSB_FIRST}

STANDARD_WIDTHS == {1, 2, 4, 8}
DEFAULT_WIDTH == 4
DEFAULT_BYTE_ORDER == MSB_FIRST

True == [k |-> "bool", b |-> TRUE]
False == [k |-> "bool", b |-> FALSE]

\* The integer a value stands for where Python treats it as a number: a bool
\* is an int (True is 1), an enumeration member is an int.
AsInt(v) ==
  CASE v.k = "bool" -> PyInt(IF v.b THEN 1 ELSE 0)
    [] v.k = "enum" -> v.int
    [] OTHER -> v

\* Python's truth value of a number.
Truthy(v) == AsInt(v).mag # <<>>

\* cls.get_bounds(width), of UnsignedInteger and of SignedInteger.
get_bounds(signed, width) ==
  IF signed
  THEN LET value_bits == 8 * width - 1
       IN  <<IntNeg(Pow2(value_bits)), IntSub(Pow2(value_bits), PyInt(1))>>
  ELSE <<PyInt(0), IntSub(Pow2(8 * width), PyInt(1))>>

\* UnsignedInteger.__init__ (cls names the class constructed).
Integer_init(cls, default, width, min_value, max_value, byte_order) ==
  IF width \notin STANDARD_WIDTHS
  THEN [ok |-> FALSE, err |-> "ValueError"]
  ELSE LET signed == (cls = "SignedInteger")
           bounds == get_bounds(signed, width)
       IN  [ok |-> TRUE, k |-> "integer", cls |-> cls, SIGNED |-> signed,
            default |-> default, byte_order |-> byte_order, width |-> width,
            min |-> IF min_value # None /\ IntLT(bounds[1], min_value)
                    THEN min_value ELSE bounds[1],
            max |-> IF max_value # None /\ IntLT(max_value, bounds[2])
                    THEN max_value ELSE bounds[2]]

UnsignedInteger(default, width, min_value, max_value, byte_order) ==
  Integer_init("UnsignedInteger", default, width, min_value, max_value, byte_order)

SignedInteger(default, width, min_value, max_value, byte_order) ==
  Integer_init("SignedInteger", default, width, min_value, max_value, byte_order)

\* Boolean.__init__: a 1-byte integer.
Boolean(default) ==
  Integer_init("Boolean", default, 1, None, None, DEFAULT_BYTE_ORDER)

\* Mutant: the lower bound itself is rejected.
Integer_validate_strict(c, v) == IntLT(c.min, AsInt(v)) /\ IntLE(AsInt(v), c.max)

\* UnsignedInteger.validate: TRUE, or ValueError (FALSE here).
Integer_validate(c, v) == IntLE(c.min, AsInt(v)) /\ IntLE(AsInt(v), c.max)

\* self.struct.pack(value): the two's complement of value in width bytes, in
\* the coder's byte order; struct.error when value does not fit the format.
struct_pack(c, v) ==
  LET x == AsInt(v)
      nat == get_bounds(c.SIGNED, c.width)
      u == IF x.neg THEN IntAdd(x, Pow2(8 * c.width)) ELSE x
      lsb == [i \in 1..c.width |-> Digit(u.mag, i)]
  IN  IF IntLT(x, nat[1]) \/ IntLT(nat[2], x)
      THEN EncodeError("struct.error")
      ELSE Encoded(IF c.byte_order = MSB_FIRST THEN Reverse(lsb) ELSE lsb)

\* Mutant: the sign bit is not interpreted.
_decode_using_struct_unsigned(c, as_bytes) ==
  MkInt(FALSE, Strip(IF c.byte_order = MSB_FIRST THEN Reverse(as_bytes)
                     ELSE as_bytes))

\* self.struct.unpack(as_bytes)[0], for exactly width bytes.
_decode_using_struct(c, as_bytes) ==
  LET lsb == IF c.byte_order = MSB_FIRST THEN Reverse(as_bytes) ELSE as_bytes
      u == MkInt(FALSE, Strip(lsb))
  IN  IF c.SIGNED /\ lsb[c.width] >= ByteRadix \div 2
      THEN IntSub(u, Pow2(8 * c.width))
      ELSE u

\* Mutant: only the byte 0x01 is true.
_decode_bool_one(as_bytes) == [k |-> "bool", b |-> (as_bytes = <<1>>)]

\* Boolean._decode_bool
_decode_bool(as_bytes) == [k |-> "bool", b |-> (as_bytes # <<0>>)]

\* self._decode_func, as __init__ chose it.
_decode_func(c, as_bytes) ==
  IF c.cls = "Boolean" THEN _decode_bool(as_bytes)
  ELSE _decode_using_struct(c, as_bytes)

\* UnsignedInteger.encode, and Boolean.encode which overrides it.
Integer_encode(c, v) ==
  IF c.cls = "Boolean"
  THEN Encoded(IF Truthy(v) THEN <<1>> ELSE <<0>>)
  ELSE IF Integer_validate(c, v)
       THEN struct_pack(c, v)
       ELSE EncodeError("ValueError")

\* UnsignedInteger.write_to
Integer_write_to(c, v, s) ==
  LET encoded == Integer_encode(c, v)
  IN  IF encoded.ok
      THEN Written(Len(encoded.bytes), stream_write(s, encoded.bytes))
      ELSE WriteError(encoded.err, s)

\* Mutant: the decoded value is not validated.
Integer_decode_unchecked(c, buf) ==
  IF Len(buf) < c.width
  THEN DecodeError("ValueError")
  ELSE Decoded(_decode_func(c, SubSeq(buf, 1, c.width)),
               SubSeq(buf, c.width + 1, Len(buf)))

\* UnsignedInteger.decode
Integer_decode(c, buf) ==
  LET mine == SubSeq(buf, 1, Min(c.width, Len(buf)))
      remainder == SubSeq(buf, c.width + 1, Len(buf))
  IN  IF Len(mine) # c.width
      THEN DecodeError("ValueError")
      ELSE LET v == _decode_func(c, mine)
           IN  IF Integer_validate(c, v)
               THEN Decoded(v, remainder)
               ELSE DecodeError("ValueError")

\* UnsignedInteger.read_from
Integer_read_from(c, s) ==
  LET r == stream_read(s, c.width)
      mine == r.data
  IN  IF Len(mine) < c.width
      THEN ReadError("ValueError", r.stream)
      ELSE LET d == Integer_decode(c, mine)
           IN  IF d.ok THEN ReadOk(d.val, r.stream)
               ELSE ReadError(d.err, r.stream)

(***************************************************************************)
(* SpecInt: one integer coder is constructed, a value is written with it   *)
(* and read back, or a source is prepared by an unrestricted coder of the  *)
(* same format (tests/primitives_tests.py, test_user_bounds) and read.     *)
(***************************************************************************)
MaxCut == 2

IntegerClasses == {"UnsignedInteger", "SignedInteger"}

\* User bounds: none, inside and outside the natural range of some width.
UserMins == {None, PyInt(0 - 200), PyInt(3), PyInt(300)}
UserMaxs == {None, PyInt(0 - 3), PyInt(100), PyInt(70000)}

\* Bytes that follow a value in a source.
Tails == {<<>>, <<255>>, <<0, 18>>}

\* Values around every bound of coder c and of its format.
TestValues(c) ==
  LET nat == get_bounds(c.SIGNED, c.width)
      near(x) == {IntSub(x, PyInt(1)), x, IntAdd(x, PyInt(1))}
  IN  near(c.min) \cup near(c.max) \cup near(nat[1]) \cup near(nat[2])
        \cup {PyInt(0 - 127), PyInt(0), PyInt(4660)}
        \cup (IF c.cls = "Boolean" THEN {True, False} ELSE {})

\* The coder of c's format with no user bounds.
Unlimited(c) == Integer_init(c.cls, PyInt(0), c.width, None, None, c.byte_order)

IntInit ==
  /\ pc = "new"
  /\ args = None
  /\ coder = None
  /\ value = None
  /\ extra = [from |-> "none", cut |-> 0, tail |-> <<>>]
  /\ stream = StringIO(<<>>)
  /\ wrote = None
  /\ got = None
  /\ creation_counter = 0
  /\ attrs = <<>>
  /\ declared = <<>>
  /\ members = None
  /\ catalog = {}
  /\ _parent_choice = <<>>

IntConstruct ==
  /\ pc = "new"
  /\ \E cls \in IntegerClasses, width \in STANDARD_WIDTHS, order \in ByteOrder,
        lo \in UserMins, hi \in UserMaxs :
       /\ args' = [cls |-> cls, width |-> width, min_value |-> lo,
                   max_value |-> hi, byte_order |-> order]
       /\ coder' = Integer_init(cls, PyInt(0), width, lo, hi, order)
  /\ pc' = "ready"
  /\ UNCHANGED <<value, extra, stream, wrote, got, schemaVars, classVars>>

\* coder.write_to(v, StringIO())
IntWrite ==
  /\ pc = "ready"
  /\ \E v \in TestValues(coder) :
       LET r == Integer_write_to(coder, v, StringIO(<<>>))
       IN  /\ value' = v
           /\ wrote' = r
           /\ stream' = r.stream
  /\ pc' = "written"
  /\ UNCHANGED <<args, coder, extra, got, schemaVars, classVars>>

\* StringIO(written bytes + tail), or the written bytes without their end.
IntRewind ==
  /\ pc = "written"
  /\ wrote.ok
  /\ \/ \E tail \in Tails :
          /\ extra' = [from |-> "write", cut |-> 0, tail |-> tail]
          /\ stream' = StringIO(getvalue(stream) \o tail)
     \/ \E cut \in 1..Min(MaxCut, Len(getvalue(stream))) :
          /\ extra' = [from |-> "write", cut |-> cut, tail |-> <<>>]
          /\ stream' = StringIO(SubSeq(getvalue(stream), 1,
                                       Len(getvalue(stream)) - cut))
  /\ pc' = "source"
  /\ UNCHANGED <<args, coder, value, wrote, got, schemaVars, classVars>>

\* A source that holds v as an unrestricted coder of the same format wrote it.
IntFeed ==
  /\ pc = "ready"
  /\ \E v \in TestValues(coder), tail \in Tails :
       LET r == Integer_write_to(Unlimited(coder), v, StringIO(<<>>))
       IN  /\ r.ok
           /\ value' = v
           /\ wrote' = Integer_write_to(coder, v, StringIO(<<>>))
           /\ extra' = [from |-> "feed", cut |-> 0, tail |-> tail]
           /\ stream' = StringIO(getvalue(r.stream) \o tail)
  /\ pc' = "source"
  /\ UNCHANGED <<args, coder, got, schemaVars, classVars>>

\* coder.read_from(stream)
IntRead ==
  /\ pc = "source"
  /\ LET r == Integer_read_from(coder, stream)
     IN  /\ got' = r
         /\ stream' = r.stream
  /\ pc' = "read"
  /\ UNCHANGED <<args, coder, value, extra, wrote, schemaVars, classVars>>

\* coder.decode(buf)
IntDecode ==
  /\ pc = "source"
  /\ got' = Integer_decode(coder, getvalue(stream))
  /\ pc' = "decoded"
  /\ UNCHANGED <<args, coder, value, extra, stream, wrote, schemaVars, classVars>>

IntNext ==
  \/ IntConstruct
  \/ IntWrite
  \/ IntRewind
  \/ IntFeed
  \/ IntRead
  \/ IntDecode

SpecInt == IntInit /\ [][IntNext]_vars

\* The bytes of the stream that have not been read.
Unread(s) == SubSeq(s.buf, s.pos + 1, Len(s.buf))

\* C1: for every UnsignedInteger or SignedInteger coder and every value the
\* coder encodes, reading or decoding the produced bytes returns the value,
\* and bytes that follow the encoding are returned (left unread) as the
\* remainder, exactly.
C1_IntegerRoundTrip ==
  (extra.from = "write" /\ extra.cut = 0) =>
    /\ pc = "decoded" => got.ok /\ got.val = value /\ got.rest = extra.tail
    /\ pc = "read" => got.ok /\ got.val = value /\ Unread(stream) = extra.tail

\* A negative value of an 8-byte little-endian signed coder came back, with
\* the two bytes that followed it as the remainder.
C1_Witness ==
  /\ pc = "decoded"
  /\ extra.from = "write"
  /\ args.cls = "SignedInteger" /\ args.width = 8 /\ args.byte_order = LSB_FIRST
  /\ value.neg
  /\ got.ok /\ got.val = value /\ got.rest = <<0, 18>>

\* The natural range of the format and the effective bounds, as C5 states them.
NaturalRange(a) ==
  IF a.cls = "SignedInteger"
  THEN <<IntNeg(Pow2(8 * a.width - 1)), IntSub(Pow2(8 * a.width - 1), PyInt(1))>>
  ELSE <<PyInt(0), IntSub(Pow2(8 * a.width), PyInt(1))>>

EffectiveMin(a) ==
  IF a.min_value # None /\ IntLT(NaturalRange(a)[1], a.min_value)
  THEN a.min_value ELSE NaturalRange(a)[1]

EffectiveMax(a) ==
  IF a.max_value # None /\ IntLT(a.max_value, NaturalRange(a)[2])
  THEN a.max_value ELSE NaturalRange(a)[2]

InEffectiveBounds(a, v) == IntLE(EffectiveMin(a), v) /\ IntLE(v, EffectiveMax(a))

\* C5: an integer coder's write succeeds exactly for the values between
\* max(natural min, user min) and min(natural max, user max), the two
\* endpoints included, and then writes width bytes; every other value fails
\* with ValueError and writes nothing.
C5_WriteRange ==
  pc = "written" =>
    /\ wrote.ok <=> InEffectiveBounds(args, value)
    /\ wrote.ok => wrote.n = args.width /\ Len(getvalue(stream)) = args.width
    /\ ~wrote.ok => wrote.err = "ValueError" /\ getvalue(stream) = <<>>

\* The user's lower bound 3 is the effective one and is written, while the
\* user's upper bound 70000 lies outside a 1-byte format and is ignored.
C5_Witness ==
  /\ pc = "written"
  /\ args.width = 1 /\ args.cls = "UnsignedInteger"
  /\ args.min_value = PyInt(3) /\ args.max_value = PyInt(70000)
  /\ value = PyInt(3)
  /\ coder.max = PyInt(255)
  /\ wrote.ok

\* C6: read_from consumes exactly width bytes when that many remain, fails
\* (ValueError) when fewer remain, and fails when the bytes hold a value
\* outside the effective bounds: it accepts the values write_to accepts.
C6_ReadWidthAndBounds ==
  pc = "read" =>
    LET avail == Len(stream.buf)
    IN  /\ avail >= coder.width => stream.pos = coder.width
        /\ avail < coder.width => ~got.ok /\ got.err = "ValueError"
        /\ avail >= coder.width =>
             /\ got.ok <=> InEffectiveBounds(args, value)
             /\ got.ok <=> wrote.ok
             /\ got.ok => got.val = value

\* All the bytes of a value were present, and the value was refused because
\* it lies above the user's maximum.
C6_Witness ==
  /\ pc = "read"
  /\ extra.from = "feed"
  /\ Len(stream.buf) >= coder.width
  /\ stream.pos = coder.width
  /\ args.max_value = PyInt(100) /\ value = PyInt(101)
  /\ ~got.ok

(***************************************************************************)
(* SpecBoolean: a Boolean coder is constructed (tests/primitives_tests.py, *)
(* BooleanFieldTests), a value is written with it and read back, or a      *)
(* source that starts with any byte is read.                               *)
(***************************************************************************)
\* The first byte of a source handed to a Boolean coder.
FirstBytes == {<<0>>, <<1>>, <<2>>, <<128>>, <<255>>}

\* Boolean(default)
BoolConstruct ==
  /\ pc = "new"
  /\ \E default \in {True, False} :
       /\ args' = [cls |-> "Boolean", width |-> 1, min_value |-> None,
                   max_value |-> None, byte_order |-> DEFAULT_BYTE_ORDER]
       /\ coder' = Boolean(default)
  /\ pc' = "ready"
  /\ UNCHANGED <<value, extra, stream, wrote, got, schemaVars, classVars>>

\* StringIO(first + tail): a source the coder did not write.
BoolFeed ==
  /\ pc = "ready"
  /\ \E first \in FirstBytes, tail \in Tails :
       /\ extra' = [from |-> "bytes", cut |-> 0, tail |-> tail]
       /\ stream' = StringIO(first \o tail)
  /\ pc' = "source"
  /\ UNCHANGED <<args, coder, value, wrote, got, schemaVars, classVars>>

BoolNext ==
  \/ BoolConstruct
  \/ IntWrite
  \/ IntRewind
  \/ BoolFeed
  \/ IntRead
  \/ IntDecode

SpecBoolean == IntInit /\ [][BoolNext]_vars

sys_maxint == 2147483647

\* isinstance(x, Coder)
IsCoder(x) ==
  x.k \in {"integer", "char", "string", "sequence", "record", "choice",
           "enumeration", "bitmasked"}

\* Member.__init__, where counter is Member.creation_counter at the call;
\* order is a model integer or None.
Member(c, order, counter) ==
  [k |-> "member", creation_counter |-> counter, coder |-> c,
   _user_defined_order |-> order # None,
   order |-> IF order # None THEN order.int ELSE sys_maxint]

\* An explicit order, as the argument of Member.
Order(n) == [k |-> "order", int |-> n]

\* Mutant: an explicit order is compared like a creation counter.
Member_lt_by_creation(self, other) ==
  self.creation_counter < other.creation_counter

\* Member.__lt__
Member_lt(self, other) ==
  IF self._user_defined_order
  THEN self.order < other.order
  ELSE IF other._user_defined_order
       THEN FALSE
       ELSE self.creation_counter < other.creation_counter

\* The comparison list.sort(key=operator.itemgetter(1)) makes between two
\* (name, member) items.
ISLT(x, y) == Member_lt(x[2], y[2])

RECURSIVE run_end(_, _, _)
\* The last index of the run that starts at q[1] and has reached i - 1.
run_end(q, i, descending) ==
  IF i <= Len(q) /\ (ISLT(q[i], q[i - 1]) <=> descending)
  THEN run_end(q, i + 1, descending)
  ELSE i - 1

\* listobject.c count_run: the length of the run q starts with, and whether
\* it is strictly descending.
count_run(q) ==
  IF Len(q) = 1
  THEN [n |-> 1, descending |-> FALSE]
  ELSE LET descending == ISLT(q[2], q[1])
       IN  [n |-> run_end(q, 3, descending), descending |-> descending]

RECURSIVE bisect(_, _, _, _)
\* The loop of binarysort that finds where pivot goes among q[l .. r - 1].
bisect(q, pivot, l, r) ==
  IF l >= r
  THEN l
  ELSE LET p == l + ((r - l) \div 2)
       IN  IF ISLT(pivot, q[p])
           THEN bisect(q, pivot, l, p)
           ELSE bisect(q, pivot, p + 1, r)

RECURSIVE binarysort(_, _)
\* listobject.c binarysort: q[1 .. start - 1] is sorted; insert the rest.
binarysort(q, start) ==
  IF start > Len(q)
  THEN q
  ELSE LET pivot == q[start]
           l == bisect(q, pivot, 1, start)
       IN  binarysort(SubSeq(q, 1, l - 1) \o <<pivot>> \o SubSeq(q, l, start - 1)
                        \o SubSeq(q, start + 1, Len(q)),
                      start + 1)

\* list.sort of CPython 2.7 for a list shorter than 64 items: the leading
\* run, reversed when it descends, then binary insertion of the rest.
list_sort(q) ==
  IF Len(q) < 2
  THEN q
  ELSE LET run == count_run(q)
           head == SubSeq(q, 1, run.n)
           q1 == (IF run.descending THEN Reverse(head) ELSE head)
                   \o SubSeq(q, run.n + 1, Len(q))
       IN  binarysort(q1, run.n + 1)

\* RecordBase.__new__ on the Member attributes of a class body.  items is
\* coders.items(): the (name, member) pairs in the dict's iteration order.
\* The result holds the class's members: (name, coder) pairs in order.
RecordBase_new(items) ==
  IF \E i \in 1..Len(items) : ~IsCoder(items[i][2].coder)
  THEN [ok |-> FALSE, err |-> "ValueError", members |-> <<>>]
  ELSE LET coder_items == list_sort(items)
       IN  [ok |-> TRUE, err |-> "none",
            members |-> [i \in 1..Len(coder_items) |->
                           <<coder_items[i][1], coder_items[i][2].coder>>]]

\* The orders in which a dict that holds the given names may iterate.
DictOrders(names) ==
  {q \in [1..Cardinality(names) -> names] :
     \A i, j \in 1..Cardinality(names) : i # j => q[i] # q[j]}

(***************************************************************************)
(* SpecSchema: a class body declares members one after another, each a     *)
(* new Member, and the class is compiled.                                  *)
(***************************************************************************)
MaxMembers == 3

AllNames == <<"a", "b", "c", "d", "e">>
Names == {AllNames[i] : i \in 1..Min(MaxMembers, Len(AllNames))}

Orders == {None, Order(1), Order(9), Order(sys_maxint)}

SchemaInit ==
  /\ pc = "body"
  /\ args = None
  /\ coder = None
  /\ value = None
  /\ extra = None
  /\ stream = StringIO(<<>>)
  /\ wrote = None
  /\ got = None
  /\ creation_counter = 0
  /\ attrs = <<>>
  /\ declared = <<>>
  /\ members = None
  /\ catalog = {}
  /\ _parent_choice = <<>>

\* name = Member(coder, order) in the class body.
DeclareMember ==
  /\ pc = "body"
  /\ \E name \in Names, order \in Orders, c \in {Boolean(False), PyInt(7)} :
       /\ \A i \in 1..Len(declared) : declared[i] # name
       /\ c = PyInt(7) => order = None
       /\ attrs' = Append(attrs, <<name, Member(c, order, creation_counter)>>)
       /\ declared' = Append(declared, name)
  /\ creation_counter' = creation_counter + 1
  /\ UNCHANGED <<pc, codecVars, classVars, members>>

\* The item of attrs declared under name.
Attr(name) == CHOOSE item \in {attrs[i] : i \in 1..Len(attrs)} : item[1] = name

\* The class statement ends: RecordBase.__new__ runs, with the dict of the
\* class body iterating in some order.
CompileRecord ==
  /\ pc = "body"
  /\ \E order \in DictOrders({declared[i] : i \in 1..Len(declared)}) :
       members' = RecordBase_new([i \in 1..Len(order) |-> Attr(order[i])])
  /\ pc' = "compiled"
  /\ UNCHANGED <<codecVars, classVars, creation_counter, attrs, declared>>

SchemaNext ==
  \/ DeclareMember
  \/ CompileRecord

SpecSchema == SchemaInit /\ [][SchemaNext]_vars

\* The names of the compiled members, in their order.
MemberNames == [i \in 1..Len(members.members) |-> members.members[i][1]]

\* Whether name was declared with an explicit order, which, and where.
Explicit(name) == Attr(name)[2]._user_defined_order
ExplicitOrder(name) == Attr(name)[2].order
DeclaredAt(name) == CHOOSE i \in 1..Len(declared) : declared[i] = name

\* C8: in a compiled Record schema every member with an explicit order
\* precedes every member without one, the members with explicit orders are
\* in ascending order of their order values, and the members without an
\* explicit order are in the sequence of their declaration.
C8_ExplicitFirst ==
  (pc = "compiled" /\ members.ok) =>
    \A i, j \in 1..Len(MemberNames) :
      i < j =>
        LET x == MemberNames[i]
            y == MemberNames[j]
        IN  /\ ~(~Explicit(x) /\ Explicit(y))
            /\ Explicit(x) /\ Explicit(y) => ExplicitOrder(x) <= ExplicitOrder(y)
            /\ ~Explicit(x) /\ ~Explicit(y) => DeclaredAt(x) < DeclaredAt(y)

\* The schema of C9: declared b, c, a, where only a has an order, 9.
C9_Schema ==
  /\ pc = "compiled"
  /\ members.ok
  /\ declared = <<"b", "c", "a">>
  /\ Explicit("a") /\ ExplicitOrder("a") = 9
  /\ ~Explicit("b") /\ ~Explicit("c")

\* C9 as stated: fields declared b, c, a, with a given the explicit order 9
\* and b and c none, resolve to the member order b, c, a.
C9_DeclarationOrderKept == C9_Schema => MemberNames = <<"b", "c", "a">>

\* C9 as amended: that schema resolves to a, b, c, whatever order the class
\* body's dict iterates in: a, having an explicit order, precedes b and c,
\* which keep the sequence of their declaration.
C9_ExplicitMemberFirst == C9_Schema => MemberNames = <<"a", "b", "c">>

\* The schema of C9 was compiled.
C9_Witness == C9_Schema /\ MemberNames = <<"a", "b", "c">>

\* C8 holds of every schema whose explicit orders are all below sys.maxint,
\* the order value Member gives to a member declared without one.
C8_BelowMaxint ==
  (\A i \in 1..Len(declared) :
     Explicit(declared[i]) => ExplicitOrder(declared[i]) < sys_maxint)
    => C8_ExplicitFirst

\* Two members that their explicit orders do not separate: both declared
\* without one, or both with the same one.
NotSeparated(x, y) ==
  \/ ~Explicit(x) /\ ~Explicit(y)
  \/ Explicit(x) /\ Explicit(y) /\ ExplicitOrder(x) = ExplicitOrder(y)

\* C22: of two members of a compiled schema that their explicit orders do
\* not separate, the one declared first comes first, whatever order the
\* class body's dict iterates in.
C22_TiesByDeclaration ==
  (pc = "compiled" /\ members.ok) =>
    \A i, j \in 1..Len(MemberNames) :
      (i < j /\ NotSeparated(MemberNames[i], MemberNames[j])) =>
        DeclaredAt(MemberNames[i]) < DeclaredAt(MemberNames[j])

\* C22 holds of the members declared without an explicit order, in every
\* schema whose explicit orders are all below sys.maxint.
C22_UnorderedByDeclaration ==
  (/\ pc = "compiled" /\ members.ok
   /\ \A i \in 1..Len(declared) :
        Explicit(declared[i]) => ExplicitOrder(declared[i]) < sys_maxint) =>
    \A i, j \in 1..Len(MemberNames) :
      (i < j /\ ~Explicit(MemberNames[i]) /\ ~Explicit(MemberNames[j])) =>
        DeclaredAt(MemberNames[i]) < DeclaredAt(MemberNames[j])

(***************************************************************************)
(* Char and String (primitives.py).  A Python 2 str is a sequence of       *)
(* bytes.                                                                  *)
(***************************************************************************)
Str(bytes) == [k |-> "str", s |-> bytes]

NULL == <<0>>

\* The single shared Char coder.
Char == [k |-> "char"]

\* Char.write_to: nothing is returned.
Char_write_to(v, s) ==
  IF Len(v.s) # 1
  THEN WriteError("ValueError", s)
  ELSE WrittenNone(stream_write(s, v.s))

\* Char.read_from
Char_read_from(s) ==
  LET r == stream_read(s, 1)
  IN  IF Len(r.data) = 0
      THEN ReadError("ValueError", r.stream)
      ELSE ReadOk(Str(r.data), r.stream)

\* The highest ASCII code.
ASCII_MAX == 127

IsAscii(bytes) == \A i \in 1..Len(bytes) : bytes[i] <= ASCII_MAX

\* String.__init__; max_length is a model integer or None ("None >= 0" is
\* False in Python 2, and a negative max_length is taken as None).
String(max_length) ==
  [k |-> "string",
   max_length |-> IF max_length # None /\ max_length.int >= 0
                  THEN max_length ELSE None]

\* A length, as the argument of String and of Sequence.
Length(n) == [k |-> "length", int |-> n]

\* Mutant: the terminator is not counted towards max_length.
String_write_to_uncounted(c, v, s) ==
  IF ~IsAscii(v.s) \/ (\E i \in 1..Len(v.s) : v.s[i] = NULL[1])
       \/ (c.max_length # None /\ Len(v.s) > c.max_length.int)
  THEN WriteError("ValueError", s)
  ELSE Written(Len(v.s) + 1, stream_write(stream_write(s, v.s), NULL))

\* String.write_to
String_write_to(c, v, s) ==
  LET total_length == Len(v.s) + 1
  IN  IF ~IsAscii(v.s)
      THEN WriteError("ValueError", s)
      ELSE IF \E i \in 1..Len(v.s) : v.s[i] = NULL[1]
      THEN WriteError("ValueError", s)
      ELSE IF c.max_length # None /\ total_length > c.max_length.int
      THEN WriteError("ValueError", s)
      ELSE Written(total_length, stream_write(stream_write(s, v.s), NULL))

RECURSIVE String_read_loop(_, _, _, _)
\* The loop of String.read_from, entered with `read` bytes read into buf.
\* At the end of the stream read(1) returns "" for ever: without a
\* max_length the loop never ends.
String_read_loop(c, s, read, buf) ==
  IF c.max_length # None /\ read >= c.max_length.int
  THEN ReadError("ValueError", s)
  ELSE IF s.pos >= Len(s.buf) /\ c.max_length = None
  THEN ReadError(Hang, s)
  ELSE LET r == stream_read(s, 1)
       IN  IF r.data = NULL
           THEN IF IsAscii(buf) THEN ReadOk(Str(buf), r.stream)
                ELSE ReadError("ValueError", r.stream)
           ELSE String_read_loop(c, r.stream, read + 1, buf \o r.data)

\* String.read_from
String_read_from(c, s) == String_read_loop(c, s, 0, <<>>)

(***************************************************************************)
(* Sequence and Array (primitives.py): construction and validation.        *)
(***************************************************************************)
\* UnsignedInteger.capable_of(max_value, min_value=...); max_value is a
\* Python integer or None, and "2 ** (8 * width) >= None" is True in Python 2.
capable_of(max_value, min_value) ==
  LET capable == {w \in STANDARD_WIDTHS :
                    max_value = None \/ IntLE(max_value, Pow2(8 * w))}
  IN  IF capable = {}
      THEN [ok |-> FALSE, err |-> "ValueError"]
      ELSE LET capable_width == CHOOSE w \in capable : \A x \in capable : w <= x
           IN  UnsignedInteger(PyInt(0), capable_width, min_value, max_value,
                               DEFAULT_BYTE_ORDER)

(***************************************************************************)
(* SpecLength: the coder of a Sequence's length prefix is made for a       *)
(* max_length, as Sequence.__init__ makes it, and lengths are written with *)
(* it and read back.                                                       *)
(***************************************************************************)
\* The max_length arguments: around every power of two that bounds a
\* standard width.
MaxLengths ==
  LET near(x) == {IntSub(x, PyInt(1)), x, IntAdd(x, PyInt(1))}
  IN  {PyInt(1), PyInt(4660)} \cup near(Pow2(8)) \cup near(Pow2(16))
        \cup near(Pow2(32)) \cup near(Pow2(64))

\* UnsignedInteger.capable_of(self.max, min_value=self.min), min_length
\* being 0.
LengthConstruct ==
  /\ pc = "new"
  /\ \E max_length \in MaxLengths :
       LET made == capable_of(max_length, PyInt(0))
       IN  /\ args' = [cls |-> "UnsignedInteger", max_length |-> max_length]
           /\ coder' = made
           /\ pc' = IF made.ok THEN "ready" ELSE "refused"
  /\ UNCHANGED <<value, extra, stream, wrote, got, schemaVars, classVars>>

\* length_coder.write_to(length, StringIO()), for lengths from 0 up to
\* max_length and one beyond.
LengthWrite ==
  /\ pc = "ready"
  /\ \E v \in {PyInt(0), PyInt(1), PyInt(255), IntSub(args.max_length, PyInt(1)),
               args.max_length, IntAdd(args.max_length, PyInt(1))} :
       LET r == Integer_write_to(coder, v, StringIO(<<>>))
       IN  /\ value' = v
           /\ wrote' = r
           /\ stream' = r.stream
  /\ pc' = "written"
  /\ UNCHANGED <<args, coder, extra, got, schemaVars, classVars>>

LengthNext ==
  \/ LengthConstruct
  \/ LengthWrite
  \/ IntRewind
  \/ IntRead
  \/ IntDecode

SpecLength == IntInit /\ [][LengthNext]_vars

\* The standard widths whose unsigned range holds n.
Representing(n) == {w \in STANDARD_WIDTHS : IntLT(n, Pow2(8 * w))}

\* C24: the coder made for the length prefix of a Sequence has the smallest
\* standard width that can represent max_length, writes every length from 0
\* to max_length, max_length included, and reads it back.
C24_PrefixHoldsMaxLength ==
  pc \notin {"new", "refused"} =>
    /\ coder.width \in Representing(args.max_length)
    /\ \A w \in Representing(args.max_length) : coder.width <= w
    /\ (pc = "written" /\ IntLE(value, args.max_length)) => wrote.ok
    /\ (pc \in {"read", "decoded"} /\ extra.cut = 0) => got.ok /\ got.val = value

\* C24 holds of every max_length that is not the power of two right above
\* the range of a standard width.
C24_ExceptPowers ==
  \/ \E w \in STANDARD_WIDTHS : args # None /\ args.max_length = Pow2(8 * w)
  \/ C24_PrefixHoldsMaxLength

\* No coder is made for a max_length that no standard width represents,
\* except for 2 ** 64.
C24_Refused ==
  (pc # "new" /\ IntLT(Pow2(64), args.max_length)) <=> pc = "refused"

\* The Python integer of a length argument, None for None.
LengthInt(n) == IF n = None THEN None ELSE PyInt(n.int)

\* Sequence.__init__; max_length and length_width are lengths or None,
\* min_length is a model integer.
Sequence(element_coder, max_length, min_length, include_length, length_width) ==
  IF max_length = None /\ length_width = None
  THEN [ok |-> FALSE, err |-> "ValueError"]
  ELSE LET length_coder == capable_of(LengthInt(max_length), PyInt(min_length))
       IN  IF ~length_coder.ok
           THEN [ok |-> FALSE, err |-> length_coder.err]
           ELSE [ok |-> TRUE, k |-> "sequence", element_coder |-> element_coder,
                 max |-> max_length, min |-> min_length,
                 include_length |-> include_length,
                 length_width |-> length_width, length_coder |-> length_coder]

\* Array.__init__
Array(element_coder, size) ==
  Sequence(element_coder, Length(size), size, FALSE, None)

\* A Python list.
List(items) == [k |-> "list", items |-> items]

\* Mutant: the number of elements is not held against max_length.
Sequence_validate_no_max(c, v) == c.min <= Len(v.items)

\* Sequence.validate: TRUE, or ValueError (FALSE here).  "count <= None" is
\* False in Python 2.
Sequence_validate(c, v) ==
  LET count == Len(v.items)
  IN  c.min <= count /\ c.max # None /\ count <= c.max.int

(***************************************************************************)
(* Enumeration and EnumerationMeta (containers.py).                        *)
(***************************************************************************)
EnumerationMeta_DEFAULT_WIDTH == 1

\* sorted(members.items(), key=value), as enum34 orders the members of a
\* Python 2 class body: ascending values, equal values in the order given.
\* Every item goes to the place that the number of items before it gives.
sorted_by_value(items) ==
  LET n == Len(items)
      given == SubSeq(items, 1, n)
      before(j, i) == \/ IntLT(given[j][2], given[i][2])
                      \/ given[j][2] = given[i][2] /\ j < i
      place == SubSeq([i \in 1..n |-> 1 + Cardinality({j \in 1..n : before(j, i)})],
                      1, n)
  IN  SubSeq([r \in 1..n |-> given[CHOOSE i \in 1..n : place[i] = r]], 1, n)

\* EnumerationMeta.__new__: the class of the (name, value) items of the
\* class body; width and byte_order are None when the body gives none.
EnumerationMeta_new(name, width, byte_order, items) ==
  LET coder0 == UnsignedInteger(
                  PyInt(0),
                  IF width = None THEN EnumerationMeta_DEFAULT_WIDTH ELSE width.int,
                  None, None,
                  IF byte_order = None THEN DEFAULT_BYTE_ORDER ELSE byte_order)
  IN  IF ~coder0.ok
      THEN [ok |-> FALSE, err |-> coder0.err]
      ELSE [ok |-> TRUE, k |-> "enumeration", name |-> name,
            __coder__ |-> coder0, members |-> sorted_by_value(items)]

\* A member of an enumeration class.
EnumMember(cls, name, int) ==
  [k |-> "enum", cls |-> cls, name |-> name, int |-> int]

\* Mutant: every integer is taken for a member.
Enumeration_call_any(cls, v) ==
  IF v.k \in {"int", "bool", "enum"}
  THEN [ok |-> TRUE, err |-> "none", val |-> EnumMember(cls, "", AsInt(v))]
  ELSE [ok |-> FALSE, err |-> "ValueError", val |-> None]

\* cls(value) on an enumeration class: the member that has the value.
Enumeration_call(cls, v) ==
  LET hits == IF v.k \in {"int", "bool", "enum"}
              THEN {i \in 1..Len(cls.members) : cls.members[i][2] = AsInt(v)}
              ELSE {}
  IN  IF hits = {}
      THEN [ok |-> FALSE, err |-> "ValueError", val |-> None]
      ELSE LET i == CHOOSE i \in hits : \A j \in hits : i <= j
           IN  [ok |-> TRUE, err |-> "none",
                val |-> EnumMember(cls, cls.members[i][1], cls.members[i][2])]

(***************************************************************************)
(* The classes RecordBase, ChoiceBase and BitMaskedIntegerMeta make.       *)
(***************************************************************************)
\* class name(Record) with the given Member attributes: RecordBase.__new__.
RecordClass(name, items) ==
  LET r == RecordBase_new(items)
  IN  IF ~r.ok
      THEN [ok |-> FALSE, err |-> r.err]
      ELSE [ok |-> TRUE, k |-> "record", name |-> name, members |-> r.members]

\* Mutant: as many variants as the tag has values are refused too.
ChoiceBase_new_strict(name, tag_width, variants) ==
  IF variants = None
  THEN [ok |-> FALSE, err |-> "ValueError"]
  ELSE LET width == IF tag_width = None THEN 1 ELSE tag_width.int
           num_variants == Len(variants.items)
           values == [i \in 1..num_variants |->
                        <<variants.items[i][2].name, variants.items[i][1]>>]
       IN  IF IntLE(Pow2(8 * width), PyInt(num_variants))
           THEN [ok |-> FALSE, err |-> "ValueError"]
           ELSE [ok |-> TRUE, k |-> "choice", name |-> name,
                 tag_width |-> tag_width,
                 tag_enum |-> EnumerationMeta_new(name, None, None, values),
                 variants |-> variants.items]

\* ChoiceBase.__new__; variants is None or the (tag, class) items of the
\* dict, tag_width a length or None.  The tag enumeration is made without a
\* __width__.
ChoiceBase_new(name, tag_width, variants) ==
  IF variants = None
  THEN [ok |-> FALSE, err |-> "ValueError"]
  ELSE LET width == IF tag_width = None THEN 1 ELSE tag_width.int
           num_variants == Len(variants.items)
           max_possible == Pow2(8 * width)
           values == [i \in 1..num_variants |->
                        <<variants.items[i][2].name, variants.items[i][1]>>]
           variants_enum == EnumerationMeta_new(name, None, None, values)
       IN  IF IntLT(max_possible, PyInt(num_variants))
           THEN [ok |-> FALSE, err |-> "ValueError"]
           ELSE [ok |-> TRUE, k |-> "choice", name |-> name,
                 tag_width |-> tag_width, tag_enum |-> variants_enum,
                 variants |-> variants.items]

\* A variants dict: (tag, class) items.
Variants(items) == [k |-> "dict", items |-> items]

\* cls.variants.get(tag): the variant registered under the tag, or None.
variants_get(cls, tag) ==
  LET hits == {i \in 1..Len(cls.variants) : cls.variants[i][1] = AsInt(tag)}
  IN  IF hits = {} THEN None ELSE cls.variants[CHOOSE i \in hits : TRUE][2]

\* BitMaskedIntegerMeta.__new__; width is a length, or None when the class
\* body has none; masks are (name, mask) items.
BitMaskedIntegerMeta_new(name, width, masks) ==
  IF width = None
  THEN [ok |-> FALSE, err |-> "ValueError"]
  ELSE LET coder0 == UnsignedInteger(PyInt(0), width.int, None, None,
                                     DEFAULT_BYTE_ORDER)
       IN  IF ~coder0.ok
           THEN [ok |-> FALSE, err |-> coder0.err]
           ELSE [ok |-> TRUE, k |-> "bitmasked", name |-> name,
                 width |-> width, _coder |-> coder0, masks |-> masks]

(***************************************************************************)
(* Instances: Record.__init__, Choice.__init__, BitMaskedInteger, and the  *)
(* default_value of every coder.  A result has ok, err and val.            *)
(***************************************************************************)
Made(v) == [ok |-> TRUE, err |-> "none", val |-> v]
Raised(e) == [ok |-> FALSE, err |-> e, val |-> None]

\* What follows a call that returned r: F of what it returned, or r itself
\* when the call raised.
Then(r, F(_)) == IF r.ok THEN F(r) ELSE r

\* The names of a Record class's members, and the coder of one of them.
member_names(cls) == {cls.members[i][1] : i \in 1..Len(cls.members)}
member_coder(cls, name) ==
  cls.members[CHOOSE i \in 1..Len(cls.members) : cls.members[i][1] = name][2]

\* isinstance(v, cls), for a class cls made by one of the metaclasses.
isinstance(v, cls) ==
  CASE cls.k = "enumeration" -> v.k = "enum" /\ v.cls = cls
    [] cls.k = "record" -> v.k = "rec" /\ v.cls = cls
    [] cls.k = "choice" -> v.k = "choice" /\ v.cls = cls
    [] cls.k = "bitmasked" -> v.k = "bits" /\ v.cls = cls
    [] OTHER -> FALSE

\* BitMaskedInteger.from_int
from_int(cls, v) == [k |-> "bits", cls |-> cls, _value |-> v]

RECURSIVE BitAnd(_, _), BitOr(_, _), lowest_one(_)
\* a & b and a | b on natural numbers.
BitAnd(a, b) ==
  IF a = 0 \/ b = 0 THEN 0
  ELSE (a % 2) * (b % 2) + 2 * BitAnd(a \div 2, b \div 2)
BitOr(a, b) ==
  IF a = 0 THEN b
  ELSE IF b = 0 THEN a
  ELSE Max(a % 2, b % 2) + 2 * BitOr(a \div 2, b \div 2)

\* bin(mask)[2:][::-1].find("1"): the index of the lowest 1 bit, -1 for 0.
lowest_one(mask) ==
  IF mask = 0 THEN 0 - 1
  ELSE IF mask % 2 = 1 THEN 0
  ELSE IF lowest_one(mask \div 2) < 0 THEN 0 - 1
  ELSE 1 + lowest_one(mask \div 2)

\* Mutant: the field is not shifted to its mask.
BitMask_unshifted(mask) == [k |-> "bitmask", mask |-> mask, shift |-> 0]

\* BitMask.__init__
BitMask(mask) == [k |-> "bitmask", mask |-> mask, shift |-> Max(lowest_one(mask), 0)]

\* The BitMask descriptor that the class cls has under name.
mask_of(cls, name) ==
  BitMask(cls.masks[CHOOSE i \in 1..Len(cls.masks) : cls.masks[i][1] = name][2])

\* BitMask.__get__(instance, owner), a natural number.
BitMask_get(self, instance) ==
  BitAnd(IntOf(instance._value), self.mask) \div (2 ^ self.shift)

\* Mutant: the bits under the mask are cleared before the value is set.
BitMask_set_cleared(self, instance, v) ==
  [instance EXCEPT !._value =
     PyInt(BitOr(IntOf(instance._value) - BitAnd(IntOf(instance._value), self.mask),
                 BitAnd(self.mask, v * (2 ^ self.shift))))]

\* Mutant: the shifted value is not cut to the mask.
BitMask_set_unmasked(self, instance, v) ==
  [instance EXCEPT !._value =
     PyInt(BitOr(IntOf(instance._value), v * (2 ^ self.shift)))]

\* BitMask.__set__(instance, value), for a natural number value: the
\* instance after instance._value |= self.mask & (value << self.shift).
BitMask_set(self, instance, v) ==
  [instance EXCEPT !._value =
     PyInt(BitOr(IntOf(instance._value), BitAnd(self.mask, v * (2 ^ self.shift))))]

RECURSIVE set_fields(_, _, _)
\* The setattr loop of BitMaskedInteger.__init__ over the keywords that name
\* a mask, from the i-th on.
set_fields(self, kwargs, i) ==
  IF i > Len(kwargs)
  THEN self
  ELSE IF \E j \in 1..Len(self.cls.masks) : self.cls.masks[j][1] = kwargs[i][1]
  THEN set_fields(BitMask_set(mask_of(self.cls, kwargs[i][1]), self,
                              IntOf(kwargs[i][2])),
                  kwargs, i + 1)
  ELSE set_fields(self, kwargs, i + 1)

\* BitMaskedInteger.__init__(**kwargs) of class cls; the values are Python
\* integers that are not negative.
BitMaskedInteger_init(cls, kwargs) ==
  Made(set_fields(from_int(cls, PyInt(0)), kwargs, 1))

\* The Record instance of class cls whose members have the given values,
\* unless the default value of one of them could not be made.
Record_of(cls, given, defaults) ==
  IF \E name \in DOMAIN defaults : ~defaults[name].ok
  THEN Raised(defaults[CHOOSE name \in DOMAIN defaults : ~defaults[name].ok].err)
  ELSE Made([k |-> "rec", cls |-> cls,
             fields |-> [name \in member_names(cls) |->
                           IF name \in DOMAIN given THEN given[name]
                           ELSE defaults[name].val]])

\* The Choice instance of class cls that holds tag and value.
Choice_of(cls, tag, v) == [k |-> "choice", cls |-> cls, tag |-> tag, value |-> v]

RECURSIVE default_value(_), Record_init(_, _), Choice_init(_, _, _)

\* Mutant: every keyword is stored, a member or not.
Record_init_all(cls, kwargs) ==
  LET names == {kwargs[i][1] : i \in 1..Len(kwargs)}
      defaults == [name \in member_names(cls) \ names |->
                     default_value(member_coder(cls, name))]
  IN  IF \E name \in DOMAIN defaults : ~defaults[name].ok
      THEN Raised("ValueError")
      ELSE Made([k |-> "rec", cls |-> cls,
                 fields |-> [name \in names \cup member_names(cls) |->
                               IF name \in names
                               THEN kwargs[CHOOSE i \in 1..Len(kwargs) :
                                             kwargs[i][1] = name][2]
                               ELSE defaults[name].val]])

\* Record.__init__(**kwargs) of class cls; kwargs holds (name, value) items.
Record_init(cls, kwargs) ==
  Record_of(cls,
            [name \in {kwargs[i][1] : i \in 1..Len(kwargs)} \cap member_names(cls) |->
               kwargs[CHOOSE i \in 1..Len(kwargs) : kwargs[i][1] = name][2]],
            [name \in member_names(cls) \ {kwargs[i][1] : i \in 1..Len(kwargs)} |->
               default_value(member_coder(cls, name))])

\* Choice.__init__(tag, value) of class cls.
Choice_init(cls, tag, v) ==
  Then(Enumeration_call(cls.tag_enum, tag),
       LAMBDA t :
         IF v # None
         THEN Made(Choice_of(cls, t.val, v))
         ELSE IF variants_get(cls, t.val) = None
         THEN Raised("AttributeError")
         ELSE Then(default_value(variants_get(cls, t.val)),
                   LAMBDA d : Made(Choice_of(cls, t.val, d.val))))

\* coder.default_value()
default_value(c) ==
  CASE c.k = "integer" -> Made(c.default)
    [] c.k = "char" -> Made(Str(NULL))
    [] c.k = "string" -> Made(Str(<<>>))
    [] c.k = "sequence" -> Made(List(<<>>))
    [] c.k = "enumeration" ->
         IF Len(c.members) = 0
         THEN Raised("ValueError")
         ELSE Made(EnumMember(c, c.members[1][1], c.members[1][2]))
    [] c.k = "record" -> Record_init(c, <<>>)
    [] c.k = "choice" ->
         Then(default_value(c.tag_enum), LAMBDA t : Choice_init(c, t.val, None))
    [] c.k = "bitmasked" -> Made(from_int(c, PyInt(0)))

(***************************************************************************)
(* Writing.  coder.write_to(value, stream) of a class made by a metaclass  *)
(* finds the class's own write_to(self, stream) before the metaclass's     *)
(* write_to(self, value, stream), as an unbound method, which demands an   *)
(* instance of the class as its first argument.                            *)
(***************************************************************************)
\* written += r, for r what a write_to returned: TypeError when r is None.
Counted_in(r) ==
  IF r.ok /\ r.ret = "None" THEN WriteError("TypeError", r.stream) ELSE r

\* A write that goes on, by F, with what the call m made, or raises what m
\* raised, with the stream as it is.
WriteWith(m, s, F(_)) == IF m.ok THEN F(m.val) ELSE WriteError(m.err, s)

RECURSIVE write_to(_, _, _), Record_write_from(_, _, _, _),
          Sequence_write_elements(_, _, _, _, _), Choice_write_to(_, _)

\* Record.write_to, from its i-th member on, `written` bytes written so far.
Record_write_from(self, i, written, s) ==
  IF i > Len(self.cls.members)
  THEN Written(written, s)
  ELSE Then(Counted_in(write_to(self.cls.members[i][2],
                                self.fields[self.cls.members[i][1]], s)),
            LAMBDA r : Record_write_from(self, i + 1, written + r.n, r.stream))

\* Record.write_to
Record_write_to(self, s) == Record_write_from(self, 1, 0, s)

\* The loop of Sequence._write_elements over the elements lo..hi of the
\* list, in order: the first half of them, then the second.
Sequence_write_elements(c, v, lo, hi, s) ==
  IF lo > hi
  THEN Written(0, s)
  ELSE IF lo = hi
  THEN Counted_in(write_to(c.element_coder, v.items[lo], s))
  ELSE Then(Sequence_write_elements(c, v, lo, (lo + hi) \div 2, s),
            LAMBDA l :
              Then(Sequence_write_elements(c, v, (lo + hi) \div 2 + 1, hi,
                                           l.stream),
                   LAMBDA r : Written(l.n + r.n, r.stream)))

\* Sequence._write_length
Sequence_write_length(c, s, v) ==
  IF c.include_length
  THEN Integer_write_to(c.length_coder, PyInt(Len(v.items)), s)
  ELSE Written(0, s)

\* Sequence.write_to
Sequence_write_to(c, v, s) ==
  IF ~Sequence_validate(c, v)
  THEN WriteError("ValueError", s)
  ELSE Then(Sequence_write_length(c, s, v),
            LAMBDA l :
              Then(Counted_in(Sequence_write_elements(c, v, 1, Len(v.items),
                                                      l.stream)),
                   LAMBDA e : Written(l.n + e.n, e.stream)))

\* Enumeration.write_to
Enumeration_write_to(cls, self, s) == Integer_write_to(cls.__coder__, self, s)

\* Choice.write_to
Choice_write_to(self, s) ==
  WriteWith(Enumeration_call(self.cls.tag_enum, self.tag), s,
    LAMBDA tag :
      Then(Enumeration_write_to(self.cls.tag_enum, tag, s),
        LAMBDA w :
          IF variants_get(self.cls, self.tag) = None
          THEN WriteError("AttributeError", w.stream)
          ELSE Then(Counted_in(write_to(variants_get(self.cls, self.tag),
                                        self.value, w.stream)),
                    LAMBDA r : Written(w.n + r.n, r.stream))))

\* BitMaskedInteger.write_to
BitMaskedInteger_write_to(self, s) ==
  Integer_write_to(self.cls._coder, self._value, s)

\* c.write_to(v, s)
write_to(c, v, s) ==
  CASE c.k = "integer" -> Integer_write_to(c, v, s)
    [] c.k = "char" -> Char_write_to(v, s)
    [] c.k = "string" -> String_write_to(c, v, s)
    [] c.k = "sequence" -> Sequence_write_to(c, v, s)
    [] c.k \in {"enumeration", "record", "choice", "bitmasked"} ->
         IF ~isinstance(v, c)
         THEN WriteError("TypeError", s)
         ELSE CASE c.k = "enumeration" -> Enumeration_write_to(c, v, s)
                [] c.k = "record" -> Record_write_to(v, s)
                [] c.k = "choice" -> Choice_write_to(v, s)
                [] c.k = "bitmasked" -> BitMaskedInteger_write_to(v, s)

\* stream.getvalue() after a write, as the result of an encode.
Encoding(r) == IF r.ok THEN Encoded(getvalue(r.stream)) ELSE EncodeError(r.err)

\* Encoder.encode, and UnsignedInteger.encode which overrides it.
encode(c, v) ==
  IF c.k = "integer"
  THEN Integer_encode(c, v)
  ELSE Encoding(write_to(c, v, StringIO(<<>>)))

\* SelfEncodable.encode, which cls.encode(self) and self.encode() find on a
\* class made by a metaclass: the bytes self.write_to puts into a new stream.
SelfEncodable_encode(self) == Encoding(write_to(self.cls, self, StringIO(<<>>)))

(***************************************************************************)
(* Reading.  read_from and decode of a class are the metaclass's.          *)
(***************************************************************************)
\* A read that returns what the call m made, having left the stream as s,
\* or raises what m raised.
ReadMade(m, s) == IF m.ok THEN ReadOk(m.val, s) ELSE ReadError(m.err, s)

RECURSIVE read_from(_, _), decode(_, _), RecordBase_read_from(_, _, _, _),
          Sequence_read_counted(_, _, _), Sequence_read_countless(_, _, _)

\* The dict comprehension of RecordBase.read_from, from the i-th member on,
\* and the call of the class on what it read.
RecordBase_read_from(cls, i, kwargs, s) ==
  IF i > Len(cls.members)
  THEN ReadMade(Record_init(cls, kwargs), s)
  ELSE Then(read_from(cls.members[i][2], s),
            LAMBDA r : RecordBase_read_from(
                         cls, i + 1, Append(kwargs, <<cls.members[i][1], r.val>>),
                         r.stream))

\* The list comprehension of Sequence._read_elements: count elements are
\* read one after another, the first half of them, then the second.
Sequence_read_counted(c, count, s) ==
  IF count = 0
  THEN ReadOk(List(<<>>), s)
  ELSE IF count = 1
  THEN Then(read_from(c.element_coder, s),
            LAMBDA r : ReadOk(List(<<r.val>>), r.stream))
  ELSE Then(Sequence_read_counted(c, count \div 2, s),
            LAMBDA l :
              Then(Sequence_read_counted(c, count - count \div 2, l.stream),
                   LAMBDA r : ReadOk(List(l.val.items \o r.val.items),
                                     r.stream)))

\* The loop of Sequence._read_countless on data, which stream.read() took
\* from the stream s, all of it ("len(items) < None" is False in Python 2).
Sequence_read_countless(c, items, data) ==
  IF data # <<>> /\ c.max # None /\ Len(items) < c.max.int
  THEN Then(decode(c.element_coder, data),
            LAMBDA d : Sequence_read_countless(c, Append(items, d.val), d.rest))
  ELSE Decoded(List(items), data)

\* Sequence._read_length: -1 when the length is not encoded.
Sequence_read_length(c, s) ==
  IF ~c.include_length
  THEN ReadOk(PyInt(0 - 1), s)
  ELSE Integer_read_from(c.length_coder, s)

\* Sequence._read_elements
Sequence_read_elements(c, count, s) ==
  IF count.neg
  THEN ReadMade(Sequence_read_countless(c, <<>>, stream_read_all(s).data),
                stream_read_all(s).stream)
  ELSE Sequence_read_counted(c, IntOf(count), s)

\* Sequence.read_from
Sequence_read_from(c, s) ==
  Then(Sequence_read_length(c, s),
       LAMBDA count :
         Then(Sequence_read_elements(c, count.val, count.stream),
              LAMBDA elements :
                IF Sequence_validate(c, elements.val) THEN elements
                ELSE ReadError("ValueError", elements.stream)))

\* EnumerationMeta.read_from
EnumerationMeta_read_from(cls, s) ==
  Then(Integer_read_from(cls.__coder__, s),
       LAMBDA v : ReadMade(Enumeration_call(cls, v.val), v.stream))

\* ChoiceBase.read_from
ChoiceBase_read_from(cls, s) ==
  Then(EnumerationMeta_read_from(cls.tag_enum, s),
       LAMBDA tag :
         IF variants_get(cls, tag.val) = None
         THEN ReadError("AttributeError", tag.stream)
         ELSE Then(read_from(variants_get(cls, tag.val), tag.stream),
                   LAMBDA v : ReadMade(Choice_init(cls, tag.val, v.val),
                                       v.stream)))

\* BitMaskedIntegerMeta.read_from
BitMaskedIntegerMeta_read_from(cls, s) ==
  Then(Integer_read_from(cls._coder, s),
       LAMBDA v : ReadOk(from_int(cls, v.val), v.stream))

\* c.read_from(s)
read_from(c, s) ==
  CASE c.k = "integer" -> Integer_read_from(c, s)
    [] c.k = "char" -> Char_read_from(s)
    [] c.k = "string" -> String_read_from(c, s)
    [] c.k = "sequence" -> Sequence_read_from(c, s)
    [] c.k = "enumeration" -> EnumerationMeta_read_from(c, s)
    [] c.k = "record" -> RecordBase_read_from(c, 1, <<>>, s)
    [] c.k = "choice" -> ChoiceBase_read_from(c, s)
    [] c.k = "bitmasked" -> BitMaskedIntegerMeta_read_from(c, s)

\* value, remainder = the value read, stream.read()
Remaining(r) ==
  IF r.ok THEN Decoded(r.val, stream_read_all(r.stream).data)
  ELSE DecodeError(r.err)

\* Decoder.decode, and UnsignedInteger.decode which overrides it.
decode(c, buf) ==
  IF c.k = "integer"
  THEN Integer_decode(c, buf)
  ELSE Remaining(read_from(c, StringIO(buf)))

(***************************************************************************)
(* Variant (containers.py) and Proxy (proxy.py).  ChoiceBase.__new__ makes *)
(* one Variant for every (tag, class) item of the variants dict.  A        *)
(* Variant forwards every attribute but _obj, _tag and _parent_choice to   *)
(* the class it wraps, so it is told from that class only by being called. *)
(* Its slots _obj and _tag are never assigned again; _parent_choice is,    *)
(* and is kept in the state, under the Variant's choice class and tag.     *)
(***************************************************************************)
\* The Variant that ChoiceBase.__new__ made for the variant of choice class
\* cls registered under tag.
Variant(cls, tag) == [k |-> "variant", choice |-> cls, _tag |-> tag]

\* Where the state keeps the _parent_choice of a Variant.
slot(self) == <<self.choice.name, self._tag>>

\* self._obj
Variant_obj(self) == variants_get(self.choice, self._tag)

\* Variant.__init__(choice_class, tag, variant_class), as it leaves the
\* _parent_choice slots it finds as `parents`.
Variant_init(parents, choice_class, tag, variant_class) ==
  LET self == Variant(choice_class, tag)
      mine == (slot(self) :> choice_class) @@ parents
  IN  IF variant_class.k = "choice"
      THEN [key \in {slot(Variant(variant_class, variant_class.variants[i][1])) :
                       i \in 1..Len(variant_class.variants)} |-> self] @@ mine
      ELSE mine

RECURSIVE make_variants(_, _, _)
\* The dict comprehension of ChoiceBase.__new__ that makes the Variants of
\* cls, from the i-th item of the variants on.
make_variants(parents, cls, i) ==
  IF i > Len(cls.variants)
  THEN parents
  ELSE make_variants(Variant_init(parents, cls, cls.variants[i][1],
                                  cls.variants[i][2]), cls, i + 1)

RECURSIVE import(_, _, _)
\* The _parent_choice slots after the class statements of the Choice classes
\* of a module have run, from the i-th on.
import(parents, classes, i) ==
  IF i > Len(classes)
  THEN parents
  ELSE import(make_variants(parents, classes[i], 1), classes, i + 1)

\* getattr(x, name) for x a Choice class or a Variant that wraps one (whose
\* __getattribute__ hands the name on to the class), and name the __name__
\* of one of the class's variants: the Variant that setattr put there.
getattr(x, name) ==
  LET cls == IF x.k = "variant" THEN Variant_obj(x) ELSE x
  IN  Variant(cls, cls.variants[CHOOSE i \in 1..Len(cls.variants) :
                                  cls.variants[i][2].name = name][1])

\* cls(*args, **kwargs) on a class made by one of the metaclasses.
type_call(cls, a, kwargs) ==
  CASE cls.k = "record" ->
         IF a # <<>> THEN Raised("TypeError") ELSE Record_init(cls, kwargs)
    [] cls.k = "choice" ->
         IF kwargs # <<>> \/ Len(a) \notin {1, 2} THEN Raised("TypeError")
         ELSE Choice_init(cls, a[1], IF Len(a) = 2 THEN a[2] ELSE None)
    [] cls.k = "enumeration" ->
         IF kwargs # <<>> \/ Len(a) # 1 THEN Raised("TypeError")
         ELSE Enumeration_call(cls, a[1])
    [] cls.k = "bitmasked" ->
         IF a # <<>> THEN Raised("TypeError") ELSE BitMaskedInteger_init(cls, kwargs)

RECURSIVE create_choice(_, _, _, _)
\* Variant.create_choice(*args, **kwargs), which is the __call__ of the
\* proxy class, with the _parent_choice slots as in `parents`.
create_choice(parents, self, a, kwargs) ==
  Then(type_call(Variant_obj(self), a, kwargs),
       LAMBDA variant :
         IF parents[slot(self)].k = "variant"
         THEN create_choice(parents, parents[slot(self)],
                            <<self._tag, variant.val>>, <<>>)
         ELSE type_call(parents[slot(self)], <<self._tag, variant.val>>, <<>>))

(***************************************************************************)
(* The schemas the codec is run on: those of protopy_tests/dummy.py and    *)
(* protopy_tests/containers_tests.py, and some that put the remaining      *)
(* coders into Records and Choices.                                        *)
(***************************************************************************)
\* The non-negative Python integer written as big-endian bytes.
IntBE(bytes) == MkInt(FALSE, Strip(Reverse(bytes)))

\* UnsignedInteger(width=width)
U(width) == UnsignedInteger(PyInt(0), width, None, None, DEFAULT_BYTE_ORDER)

\* A class body that declares the given (name, coder) pairs in sequence,
\* without explicit orders.
Body(pairs) == [i \in 1..Len(pairs) |-> <<pairs[i][1], Member(pairs[i][2], None, i)>>]

GetStatus == RecordClass("GetStatus", Body(<<<<"is_active", Boolean(False)>>,
                                            <<"uptime", U(4)>>>>))
Reset == RecordClass("Reset", <<>>)
General == ChoiceBase_new("General", None,
                          Variants(<<<<PyInt(250), GetStatus>>, <<PyInt(2), Reset>>>>))

MaxString == 4

Upgrade == RecordClass("Upgrade", Body(<<<<"path", String(Length(MaxString))>>>>))
Dummy == RecordClass("Dummy", Body(<<<<"counter_size", U(4)>>>>))
Command == ChoiceBase_new("Command", Length(2),
                          Variants(<<<<PyInt(1), Upgrade>>, <<PyInt(18), Dummy>>,
                                     <<PyInt(84), General>>>>))

Flags == BitMaskedIntegerMeta_new("Flags", Length(1),
                                  <<<<"packet_type", 192>>, <<"protocol", 48>>,
                                    <<"request_ack", 8>>, <<"field_d", 7>>>>)

Header == RecordClass("Header",
                      Body(<<<<"barker", UnsignedInteger(IntBE(<<202, 254, 190, 239>>),
                                                         DEFAULT_WIDTH, None, None,
                                                         DEFAULT_BYTE_ORDER)>>,
                             <<"size", U(2)>>, <<"inverted_size", U(2)>>>>))

Packet == RecordClass("Packet", Body(<<<<"header", Header>>, <<"payload", Command>>,
                                       <<"crc", U(DEFAULT_WIDTH)>>>>))

DaysOfWeek == EnumerationMeta_new("DaysOfWeek", None, None,
                                  <<<<"Monday", PyInt(2)>>, <<"Sunday", PyInt(1)>>,
                                    <<"Tuesday", PyInt(3)>>>>)

\* An enumeration backed by two bytes (__width__ = 2).
Opcode == EnumerationMeta_new("Opcode", Length(2), None,
                              <<<<"Nop", PyInt(0)>>, <<"Halt", PyInt(300)>>>>)

MaxItems == 2

\* Sequences of at most MaxItems bytes: with a length prefix, without one,
\* and of a fixed size.
Counted == Sequence(U(1), Length(MaxItems), 0, TRUE, None)
Countless == Sequence(U(1), Length(MaxItems), 0, FALSE, None)
Pair == Array(U(1), MaxItems)
Unbounded == Sequence(U(1), None, 0, TRUE, Length(1))
Letters == Sequence(Char, Length(MaxItems), 0, TRUE, None)
NonEmpty == Sequence(U(1), Length(MaxItems), 1, FALSE, None)

\* A Sequence whose max_length is the first that one byte cannot hold.
Wide == Sequence(U(1), Length(2 ^ 8), 0, TRUE, None)

\* Records that hold a sequence followed by another member, a Char, an
\* enumeration and a bit-field integer.
Listing == RecordClass("Listing", Body(<<<<"items", Counted>>, <<"crc", U(1)>>>>))
Block == RecordClass("Block", Body(<<<<"data", Pair>>, <<"crc", U(1)>>>>))
Labeled == RecordClass("Labeled", Body(<<<<"label", Char>>, <<"n", U(1)>>>>))
Event == RecordClass("Event", Body(<<<<"day", DaysOfWeek>>, <<"flags", Flags>>,
                                     <<"name", String(None)>>>>))

\* A Choice whose variants are Records that hold a Choice and a Sequence.
Envelope == ChoiceBase_new("Envelope", None,
                           Variants(<<<<PyInt(1), Packet>>, <<PyInt(2), Block>>,
                                      <<PyInt(3), Listing>>>>))

Coders ==
  {U(1), U(2), SignedInteger(PyInt(0), 2, None, None, LSB_FIRST), Boolean(False),
   Char, String(Length(MaxString)), String(None), String(Length(0)),
   String(Length(0 - 1)),
   Counted, Countless, Pair, Unbounded, Letters, NonEmpty, Wide,
   DaysOfWeek, Opcode, Flags,
   GetStatus, Reset, General, Upgrade, Dummy, Command, Header, Packet,
   Listing, Block, Labeled, Event, Envelope}

(***************************************************************************)
(* The values handed to the coders.                                        *)
(***************************************************************************)
\* All sequences of at most n items of the set S.
SeqsUpTo(S, n) == UNION {[1..m -> S] : m \in 0..n}

RECURSIVE Samples(_), FieldSamples(_, _)

\* The assignments of sample values to the members of cls from the i-th on.
FieldSamples(cls, i) ==
  IF i > Len(cls.members)
  THEN {<<>>}
  ELSE {<<<<cls.members[i][1], v>>>> \o rest :
          v \in Samples(cls.members[i][2]), rest \in FieldSamples(cls, i + 1)}

\* Values for coder c, among them some the coder refuses.
Samples(c) ==
  CASE c.k = "integer" ->
         IF c.cls = "Boolean" THEN {True, False}
         ELSE IF c.width = 1 THEN {PyInt(18), PyInt(255), PyInt(256)}
         ELSE IF c.width = 2 THEN {PyInt(4660), PyInt(60875)}
         ELSE {IntBE(<<186, 94, 186, 17>>), PyInt(4660)}
    [] c.k = "char" -> {Str(<<65>>), Str(<<65, 66>>)}
    [] c.k = "string" -> {Str(<<>>), Str(<<104, 105>>), Str(<<104, 0>>),
                          Str(<<104, 105, 106>>), Str(<<104, 105, 106, 107>>),
                          Str(<<104, 233>>)}
    [] c.k = "sequence" ->
         IF c.max # None /\ c.max.int > MaxItems + 1
         THEN {List([i \in 1..n |-> PyInt(18)]) : n \in {c.max.int - 1, c.max.int}}
         ELSE {List(q) : q \in SeqsUpTo(IF c.element_coder.k = "char"
                                         THEN {Str(<<65>>)}
                                         ELSE {PyInt(18), PyInt(255), PyInt(256)},
                                         MaxItems + 1)}
    [] c.k = "enumeration" ->
         {EnumMember(c, c.members[i][1], c.members[i][2]) : i \in 1..Len(c.members)}
           \cup {PyInt(1), PyInt(7)}
    [] c.k = "record" ->
         {Record_init(c, kwargs).val : kwargs \in FieldSamples(c, 1)}
    [] c.k = "choice" ->
         UNION {{Choice_init(c, c.variants[i][1], v).val :
                   v \in Samples(c.variants[i][2])} : i \in 1..Len(c.variants)}
    [] c.k = "bitmasked" -> {from_int(c, PyInt(157)), from_int(c, PyInt(0))}

\* Sources that were not written by the coder that reads them.
Sources ==
  {<<>>, <<7>>, <<2, 9>>, <<250, 255, 0, 0, 18, 52, 86>>, <<1, 2, 3, 4>>,
   <<104, 105>>, <<104, 0, 105>>}

\* What is written behind a value into the same stream.
Followers == {[coder |-> U(1), value |-> PyInt(127)],
              [coder |-> Reset, value |-> Record_init(Reset, <<>>).val]}

(***************************************************************************)
(* SpecCodec: a value is written with a coder of the catalog into a new    *)
(* stream, more values may be written behind it, and the stream is read    *)
(* back from its start with the coders that wrote it, one value after      *)
(* another, or decoded as a buffer; or a coder reads a source it did not   *)
(* write.  args lists what the stream holds; coder and value are what was  *)
(* last written or is being read.                                          *)
(***************************************************************************)
MaxValues == 2

CodecInit ==
  /\ pc = "idle"
  /\ args = <<>>
  /\ coder = None
  /\ value = None
  /\ extra = [from |-> "none", index |-> 0, start |-> 0]
  /\ stream = StringIO(<<>>)
  /\ wrote = None
  /\ got = None
  /\ creation_counter = 0
  /\ attrs = <<>>
  /\ declared = <<>>
  /\ members = None
  /\ catalog = Coders
  /\ _parent_choice = import(<<>>, <<General, Command, Envelope>>, 1)

\* coder.write_to(value, StringIO())
CodecWrite ==
  /\ pc = "idle"
  /\ \E c \in catalog :
       \E v \in Samples(c) :
         LET r == write_to(c, v, stream)
         IN  /\ coder' = c
             /\ value' = v
             /\ wrote' = r
             /\ stream' = r.stream
             /\ args' = <<[coder |-> c, value |-> v]>>
             /\ pc' = IF r.ok THEN "written" ELSE "failed"
  /\ UNCHANGED <<extra, got, schemaVars, classVars>>

\* Another value is written behind the ones the stream holds.
CodecWriteNext ==
  /\ pc = "written"
  /\ Len(args) < MaxValues
  /\ \E f \in Followers :
       LET r == write_to(f.coder, f.value, stream)
       IN  /\ r.ok
           /\ stream' = r.stream
           /\ args' = Append(args, f)
  /\ UNCHANGED <<pc, coder, value, extra, wrote, got, schemaVars, classVars>>

\* StringIO(stream.getvalue()): the written bytes become a source.
CodecRewind ==
  /\ pc = "written"
  /\ stream' = StringIO(getvalue(stream))
  /\ extra' = [from |-> "write", index |-> 0, start |-> 0]
  /\ pc' = "source"
  /\ UNCHANGED <<args, coder, value, wrote, got, schemaVars, classVars>>

\* A source of bytes for a coder that did not write them.
CodecFeed ==
  /\ pc = "idle"
  /\ \E c \in catalog, buf \in Sources :
       /\ coder' = c
       /\ args' = <<[coder |-> c, value |-> None]>>
       /\ stream' = StringIO(buf)
  /\ extra' = [from |-> "feed", index |-> 0, start |-> 0]
  /\ pc' = "source"
  /\ UNCHANGED <<value, wrote, got, schemaVars, classVars>>

\* The next value is read: coder.read_from(stream).
CodecRead ==
  /\ pc \in {"source", "read"}
  /\ pc = "read" => got.ok
  /\ extra.index < Len(args)
  /\ LET next == args[extra.index + 1]
         r == read_from(next.coder, stream)
     IN  /\ coder' = next.coder
         /\ value' = next.value
         /\ got' = r
         /\ stream' = r.stream
  /\ extra' = [extra EXCEPT !.index = extra.index + 1, !.start = stream.pos]
  /\ pc' = "read"
  /\ UNCHANGED <<args, wrote, schemaVars, classVars>>

\* The whole buffer is decoded: coder.decode(stream.getvalue()).
CodecDecode ==
  /\ pc = "source"
  /\ coder' = args[1].coder
  /\ value' = args[1].value
  /\ got' = decode(args[1].coder, getvalue(stream))
  /\ extra' = [extra EXCEPT !.index = 1]
  /\ pc' = "decoded"
  /\ UNCHANGED <<args, stream, wrote, schemaVars, classVars>>

CodecNext ==
  \/ CodecWrite
  \/ CodecWriteNext
  \/ CodecRewind
  \/ CodecFeed
  \/ CodecRead
  \/ CodecDecode

SpecCodec == CodecInit /\ [][CodecNext]_vars

\* One value was written, and the source holds its bytes and no more.
Alone == extra.from = "write" /\ Len(args) = 1

\* What a read or a decode left of the source.
Remainder == IF pc = "decoded" THEN got.rest ELSE Unread(stream)

\* C2: for every Record type and every instance whose write succeeds,
\* decoding the written bytes yields a Record equal to the instance, member
\* by member, with an empty remainder.
C2_RecordRoundTrip ==
  (pc \in {"read", "decoded"} /\ Alone /\ coder.k = "record") =>
    /\ got.ok
    /\ got.val = value
    /\ Remainder = <<>>

\* The Records of the catalog other than Block, whose length-less Array is
\* followed by another member, do come back equal, with an empty remainder.
C2_ExceptOpenSequence == coder # Block => C2_RecordRoundTrip

\* A leading byte that is no tag of the Choice class cls.
UnknownTag(cls, buf) ==
  /\ buf # <<>>
  /\ \A i \in 1..Len(cls.variants) : cls.variants[i][1] # PyInt(buf[1])

\* C3: a Choice that was written is decoded by its class as a Choice with
\* the same tag and an equal value, with an empty remainder; and decoding
\* bytes whose leading tag is not a declared tag fails.
C3_ChoiceRoundTrip ==
  (pc \in {"read", "decoded"} /\ coder.k = "choice") =>
    /\ Alone =>
         /\ got.ok
         /\ got.val.tag = value.tag
         /\ got.val.value = value.value
         /\ Remainder = <<>>
    /\ (extra.from = "feed" /\ UnknownTag(coder, stream.buf)) => ~got.ok

\* C3 holds of every Choice that does not hold a Block.
C3_ExceptOpenSequence ==
  (value # None /\ value.k = "choice" /\ value.value.cls = Block)
    \/ C3_ChoiceRoundTrip

\* The bytes coder c writes for v into a new stream.
BytesOf(c, v) == getvalue(write_to(c, v, StringIO(<<>>)).stream)

\* Whether coder c writes v.
Encodes(c, v) == write_to(c, v, StringIO(<<>>)).ok

\* C4: a successful read by any coder leaves the source right behind the
\* bytes that encode the returned value, so the values written one after
\* another are read back one after another; and decode returns as remainder
\* the bytes of the buffer that do not belong to the value.
C4_PositionAfterValue ==
  /\ (pc = "read" /\ got.ok /\ Encodes(coder, got.val)) =>
       stream.pos = extra.start + Len(BytesOf(coder, got.val))
  /\ (pc = "decoded" /\ got.ok /\ Encodes(coder, got.val)) =>
       got.rest = SubSeq(stream.buf, Len(BytesOf(coder, got.val)) + 1,
                         Len(stream.buf))
  /\ (pc = "read" /\ extra.from = "write") => got.ok /\ got.val = value

\* Whether coder c is or holds a Sequence without a length prefix.
RECURSIVE HasOpenSequence(_)
HasOpenSequence(c) ==
  CASE c.k = "sequence" -> ~c.include_length \/ HasOpenSequence(c.element_coder)
    [] c.k = "record" ->
         \E i \in 1..Len(c.members) : HasOpenSequence(c.members[i][2])
    [] c.k = "choice" ->
         \E i \in 1..Len(c.variants) : HasOpenSequence(c.variants[i][2])
    [] OTHER -> FALSE

\* C4 holds where no Sequence without a length prefix is read.
C4_ExceptOpenSequence ==
  (\E i \in 1..Len(args) : HasOpenSequence(args[i].coder))
    \/ C4_PositionAfterValue

\* The encodings of the members of the Record instance r, each by its own
\* coder into a stream of its own, in the order of the class's members.
MemberWrites(r) ==
  [i \in 1..Len(r.cls.members) |->
     write_to(r.cls.members[i][2], r.fields[r.cls.members[i][1]], StringIO(<<>>))]

RECURSIVE Concat(_)
Concat(parts) ==
  IF parts = <<>> THEN <<>> ELSE getvalue(Head(parts).stream) \o Concat(Tail(parts))

\* The values and the bytes of the example: barker, size, inverted_size.
ExampleHeader ==
  Record_init(Header, <<<<"barker", IntBE(<<186, 94, 186, 17>>)>>,
                        <<"size", PyInt(4660)>>,
                        <<"inverted_size", PyInt(60875)>>>>).val
ExampleHeaderBytes == <<186, 94, 186, 17, 18, 52, 237, 203>>

\* C7: when each member's own coder writes the member's value, Record.write_to
\* writes the concatenation of those encodings, in schema order, and returns
\* the number of those bytes; the example Header is written as
\* BA 5E BA 11 12 34 ED CB.
C7_RecordWrite ==
  (pc \in {"written", "failed"} /\ Len(args) = 1 /\ coder.k = "record") =>
    LET parts == MemberWrites(value)
    IN  /\ (\A i \in 1..Len(parts) : parts[i].ok) =>
              /\ wrote.ok
              /\ getvalue(stream) = Concat(parts)
              /\ wrote.n = Len(Concat(parts))
        /\ value = ExampleHeader => getvalue(stream) = ExampleHeaderBytes

\* C7 holds of every Record none of whose members is written by Char.
C7_ExceptChar ==
  (coder # None /\ coder.k = "record"
     /\ \E i \in 1..Len(coder.members) : coder.members[i][2] = Char)
    \/ C7_RecordWrite

\* The tag of a Choice instance in the tag_width bytes of its class.
TagBytes(c) ==
  LET width == IF c.cls.tag_width = None THEN 1 ELSE c.cls.tag_width.int
  IN  Reverse([i \in 1..width |-> Digit(AsInt(c.tag).mag, i)])

\* The example: tag 0xfa selects GetStatus(is_active=True, uptime=0x1234).
ExampleChoice ==
  Choice_init(General, PyInt(250),
              Record_init(GetStatus, <<<<"is_active", True>>,
                                       <<"uptime", PyInt(4660)>>>>).val).val
ExampleChoiceBytes == <<250, 1, 0, 0, 18, 52>>

\* C10: Choice.write_to writes the tag in tag_width bytes, then the
\* encoding of the value by the variant registered under the tag, and
\* returns the number of bytes written; the example is written as
\* FA 01 00 00 12 34.
C10_ChoiceWrite ==
  (pc = "written" /\ Len(args) = 1 /\ coder.k = "choice") =>
    /\ getvalue(stream) =
         TagBytes(value) \o BytesOf(variants_get(coder, value.tag), value.value)
    /\ wrote.n = Len(getvalue(stream))
    /\ value = ExampleChoice => getvalue(stream) = ExampleChoiceBytes

\* C10 holds of the Choice classes that declare no tag_width: the tag is
\* one byte.
C10_DefaultTagWidth ==
  (coder # None /\ coder.k = "choice" /\ coder.tag_width # None)
    \/ C10_ChoiceWrite

\* A list has fewer elements than the Sequence coder c allows, or more.
OutOfBounds(c, v) ==
  \/ Len(v.items) < c.min
  \/ c.max # None /\ Len(v.items) > c.max.int

\* C13: Sequence.write_to fails for a list of fewer than min_length or more
\* than max_length elements; a Sequence without a length prefix never reads
\* more than max_length elements, whatever the source holds behind them,
\* and fails on a source of fewer than min_length elements.
C13_SequenceBounds ==
  coder.k = "sequence" =>
    /\ (pc \in {"written", "failed"} /\ value.k = "list" /\ OutOfBounds(coder, value))
         => ~wrote.ok
    /\ (pc \in {"read", "decoded"} /\ ~coder.include_length /\ got.ok)
         => /\ got.val.k = "list"
            /\ ~OutOfBounds(coder, got.val)
            /\ coder.max # None
    /\ (/\ pc \in {"read", "decoded"} /\ ~coder.include_length
        /\ coder.element_coder.k = "integer"
        /\ Len(stream.buf) - extra.start < coder.min * coder.element_coder.width)
         => ~got.ok

\* A Sequence of at most MaxItems bytes, without a length prefix, read
\* MaxItems elements from a source that holds more bytes.
C13_Witness ==
  /\ pc = "read" /\ coder = Countless /\ got.ok
  /\ Len(got.val.items) = MaxItems
  /\ Len(stream.buf) > MaxItems

\* The number n as the length prefix of the Sequence coder c: big-endian, in
\* the width of the length coder.
LengthBytes(c, n) ==
  Reverse([i \in 1..c.length_coder.width |-> Digit(PyInt(n).mag, i)])

RECURSIVE ElementBytes(_, _)
\* The encodings of the items, each by coder c, one after another.
ElementBytes(c, items) ==
  IF items = <<>> THEN <<>>
  ELSE IF Len(items) = 1 THEN BytesOf(c, items[1])
  ELSE ElementBytes(c, SubSeq(items, 1, Len(items) \div 2))
         \o ElementBytes(c, SubSeq(items, Len(items) \div 2 + 1, Len(items)))

\* A list the Sequence coder c, which has a max_length, is to accept: min to
\* max elements, each of which the element coder writes.
WithinBounds(c, v) ==
  /\ v.k = "list"
  /\ c.max # None
  /\ ~OutOfBounds(c, v)
  /\ \A i \in 1..Len(v.items) : Encodes(c.element_coder, v.items[i])

\* C14: a Sequence with a length prefix writes every list of min_length to
\* max_length elements as the prefix followed by the encodings of the
\* elements, and reads the list back from those bytes: the prefix, then
\* exactly that many elements.
C14_CountedRoundTrip ==
  (/\ coder.k = "sequence" /\ coder.include_length
   /\ pc \in {"written", "failed", "read", "decoded"}
   /\ extra.from # "feed"
   /\ WithinBounds(coder, value)) =>
    /\ pc # "failed"
    /\ (pc = "written" /\ Len(args) = 1) =>
         getvalue(stream) = LengthBytes(coder, Len(value.items))
                              \o ElementBytes(coder.element_coder, value.items)
    /\ pc \in {"read", "decoded"} => got.ok /\ got.val = value
    /\ pc = "read" =>
         stream.pos = coder.length_coder.width
                        + Len(ElementBytes(coder.element_coder, value.items))
    /\ (pc = "decoded" /\ Alone) => got.rest = <<>>

\* C14 holds of the Sequences whose elements are not written by Char and
\* whose max_length is below 2 ** (8 * width of the length prefix).
C14_ExceptCharAndFullPrefix ==
  \/ coder # None /\ coder.k = "sequence"
       /\ (\/ coder.element_coder = Char
           \/ coder.max # None
                /\ coder.max.int >= 2 ^ (8 * coder.length_coder.width))
  \/ C14_CountedRoundTrip

\* What String.write_to is to accept: ASCII without a null byte that, with
\* its terminator, is no longer than the max_length of the coder, if it has
\* one.
Accepted(c, v) ==
  /\ IsAscii(v.s)
  /\ \A i \in 1..Len(v.s) : v.s[i] # 0
  /\ c.max_length # None => Len(v.s) + 1 <= c.max_length.int

\* C15: String.write_to accepts exactly those values, writes the bytes of
\* the value and one null byte behind them and returns their number; reading
\* the bytes back returns the value and consumes the terminator.
C15_StringRoundTrip ==
  (coder.k = "string" /\ extra.from # "feed") =>
    /\ (pc \in {"written", "failed"} /\ Len(args) = 1) =>
         /\ pc = "written" <=> Accepted(coder, value)
         /\ pc = "written" =>
              /\ getvalue(stream) = value.s \o <<0>>
              /\ wrote.n = Len(value.s) + 1
    /\ pc = "read" =>
         /\ got.ok
         /\ got.val = value
         /\ stream.pos = Len(value.s) + 1
    /\ pc = "decoded" =>
         /\ got.ok
         /\ got.val = value
         /\ got.rest = SubSeq(stream.buf, Len(value.s) + 2, Len(stream.buf))

\* A string that fills max_length with its terminator was read back, with
\* another value behind it in the source.
C15_Witness ==
  /\ pc = "read"
  /\ coder = String(Length(MaxString))
  /\ Len(value.s) + 1 = MaxString
  /\ Len(args) = 2
  /\ got.ok /\ got.val = value
  /\ stream.pos = MaxString

\* The values of the members of the enumeration class cls.
MemberValues(cls) == {cls.members[i][2] : i \in 1..Len(cls.members)}

\* The unsigned integer the first bytes of buf stand for in the backing
\* width of the enumeration class cls.
BackedInt(cls, buf) == IntBE(SubSeq(buf, 1, cls.__coder__.width))

\* C18: an enumeration class writes a value exactly when the value is one of
\* its members, and then emits the member's value in the backing width,
\* big-endian; a value that is no member's value is never written; reading
\* or decoding a source of at least the backing width succeeds exactly when
\* the integer it starts with is a member's value, returns that member and
\* consumes the backing width.
C18_EnumerationMembersOnly ==
  (coder # None /\ coder.k = "enumeration") =>
    LET w == coder.__coder__.width
    IN  /\ pc \in {"written", "failed"} =>
              /\ wrote.ok <=> isinstance(value, coder)
              /\ wrote.ok =>
                    /\ AsInt(value) \in MemberValues(coder)
                    /\ Len(getvalue(stream)) >= w
                    /\ BackedInt(coder, getvalue(stream)) = AsInt(value)
              /\ AsInt(value) \notin MemberValues(coder) => ~wrote.ok
        /\ (pc = "read" /\ extra.index = 1 /\ Len(stream.buf) >= w) =>
              /\ got.ok <=> BackedInt(coder, stream.buf) \in MemberValues(coder)
              /\ got.ok =>
                    /\ isinstance(got.val, coder)
                    /\ AsInt(got.val) = BackedInt(coder, stream.buf)
                    /\ stream.pos = w
              /\ ~got.ok => got.err = "ValueError"
        /\ (pc = "decoded" /\ Len(getvalue(stream)) >= w) =>
              /\ got.ok <=> BackedInt(coder, getvalue(stream))
                               \in MemberValues(coder)
              /\ got.ok => /\ isinstance(got.val, coder)
                           /\ AsInt(got.val) = BackedInt(coder, getvalue(stream))

\* DaysOfWeek, backed by one byte, read the byte 7, which is no member's
\* value, and failed.
C18_Witness ==
  /\ pc = "read" /\ coder = DaysOfWeek
  /\ stream.buf = <<7>>
  /\ ~got.ok /\ got.err = "ValueError"

\* C21: a write_to that succeeds returns the number of bytes it appended
\* to the stream, which is the length of what encode gives for the value.
C21_WriteReturnsCount ==
  (pc = "written" /\ Len(args) = 1) =>
    /\ wrote.ret = "int"
    /\ wrote.n = Len(getvalue(stream))
    /\ encode(coder, value).ok
    /\ wrote.n = Len(encode(coder, value).bytes)

\* C21 holds of every coder of the catalog but Char, whose write_to has no
\* return statement.
C21_ExceptChar ==
  (pc = "written" /\ Len(args) = 1 /\ coder # Char) => C21_WriteReturnsCount

(***************************************************************************)
(* SpecString: String.read_from, one iteration of its loop at a time.      *)
(* extra holds the locals read and buf.  Nothing looks at read when the    *)
(* coder has no max_length, and it is below max_length + 1 when it has     *)
(* one, so read is counted up to MaxRead only.                             *)
(***************************************************************************)
MaxRead == 6

StringCoders ==
  {String(None), String(Length(MaxString)), String(Length(0)), String(Length(0 - 1))}

StringSources ==
  Sources \cup {<<0>>, <<104, 105, 0>>, <<104, 233, 0>>, <<104, 105, 106, 0>>,
                <<104, 105, 106, 107, 0>>, <<104, 105, 106, 107>>}

StrInit ==
  /\ pc = "idle"
  /\ args = <<>>
  /\ coder = None
  /\ value = None
  /\ extra = [read |-> 0, buf |-> <<>>]
  /\ stream = StringIO(<<>>)
  /\ wrote = None
  /\ got = None
  /\ creation_counter = 0
  /\ attrs = <<>>
  /\ declared = <<>>
  /\ members = None
  /\ catalog = StringCoders
  /\ _parent_choice = <<>>

\* coder.read_from(StringIO(source)) is called: buf = StringIO(); read = 0
StrCall ==
  /\ pc = "idle"
  /\ \E c \in catalog, source \in StringSources :
       /\ coder' = c
       /\ args' = <<source>>
       /\ stream' = StringIO(source)
  /\ pc' = "loop"
  /\ UNCHANGED <<value, extra, wrote, got, schemaVars, classVars>>

\* One iteration of "while True".
StrLoop ==
  /\ pc = "loop"
  /\ IF coder.max_length # None /\ extra.read >= coder.max_length.int
     THEN /\ got' = ReadError("ValueError", stream)
          /\ pc' = "raised"
          /\ UNCHANGED <<stream, extra>>
     ELSE LET r == stream_read(stream, 1)
          IN  /\ stream' = r.stream
              /\ IF r.data = NULL
                 THEN /\ got' = IF IsAscii(extra.buf)
                                THEN ReadOk(Str(extra.buf), r.stream)
                                ELSE ReadError("ValueError", r.stream)
                      /\ pc' = IF IsAscii(extra.buf) THEN "returned" ELSE "raised"
                      /\ extra' = [extra EXCEPT !.read = Min(extra.read + 1, MaxRead)]
                 ELSE /\ extra' = [read |-> Min(extra.read + 1, MaxRead),
                                   buf |-> extra.buf \o r.data]
                      /\ UNCHANGED <<pc, got>>
  /\ UNCHANGED <<args, coder, value, wrote, schemaVars, classVars>>

StrNext ==
  \/ StrCall
  \/ StrLoop

\* A call that was made goes on running: the loop takes its next iteration.
SpecString == StrInit /\ [][StrNext]_vars /\ WF_vars(StrLoop)

\* C16: String.read_from always terminates: it returns the bytes before the
\* first null byte or raises, and does not go on looping when the source is
\* exhausted.
C16_ReadTerminates == (pc = "loop") ~> (pc \in {"returned", "raised"})

\* C16 holds of the String coders that have a max_length.
C16_BoundedReadTerminates ==
  (pc = "loop" /\ coder.max_length # None) ~> (pc \in {"returned", "raised"})

\* A call that ended returned the bytes before the first null byte of the
\* source, or raised, as String_read_from says.
C16_ReturnsPrefix ==
  pc \in {"returned", "raised"} =>
    /\ got = String_read_from(coder, StringIO(args[1]))
    /\ got.ok =>
         /\ \A i \in 1..Len(got.val.s) : got.val.s[i] # 0
         /\ SubSeq(args[1], 1, Len(got.val.s) + 1) = got.val.s \o <<0>>

(***************************************************************************)
(* SpecObject: the class statements of a module run one after another, and *)
(* at any point between them an object is made: by calling a variant       *)
(* reached through a Choice class, by calling a class, or by reading a     *)
(* source.  The tag and the value of a Choice that was made are assigned   *)
(* to, and the object is written.  args tells how the object was made,     *)
(* coder is its class and value the object.                                *)
(***************************************************************************)
\* A second Choice that lists General as a variant.
Query == ChoiceBase_new("Query", None,
                        Variants(<<<<PyInt(1), General>>, <<PyInt(2), Reset>>>>))

\* A BitMaskedInteger of two bytes, one field in each.
Ports == BitMaskedIntegerMeta_new("Ports", Length(2),
                                  <<<<"source", 65280>>, <<"target", 255>>>>)

\* The classes of the module that are no Choices.
Loaded == {GetStatus, Reset, Upgrade, Dummy, Header, Event, Flags, Ports}

\* The Choice classes in the order their class statements run.
Program == <<General, Command, Query>>

\* The objects handed to constructors and assigned to attributes.
Objects ==
  {Record_init(GetStatus, <<<<"is_active", True>>, <<"uptime", PyInt(4660)>>>>).val,
   Record_init(Reset, <<>>).val,
   Record_init(Dummy, <<>>).val,
   Choice_init(General, PyInt(2), None).val,
   PyInt(7)}

\* The tags handed to constructors and assigned to attributes.
Tags == {PyInt(1), PyInt(2), PyInt(18), PyInt(84), PyInt(250), PyInt(7)}

RECURSIVE KwargsFrom(_, _)
\* Keyword arguments for the members of the Record class cls from the i-th
\* on, some left out, and with or without a keyword that is no member.
KwargsFrom(cls, i) ==
  IF i > Len(cls.members)
  THEN {<<>>, <<<<"bogus", PyInt(7)>>>>}
  ELSE KwargsFrom(cls, i + 1)
         \cup {<<<<cls.members[i][1], v>>>> \o rest :
                 v \in Samples(cls.members[i][2]), rest \in KwargsFrom(cls, i + 1)}

\* The largest value that fits the field of a mask.
Full(mask) == mask \div (2 ^ BitMask(mask).shift)

RECURSIVE FieldsFrom(_, _)
\* Keyword arguments for the fields of the BitMaskedInteger class cls from
\* the i-th on: some left out, some too wide for their field.
FieldsFrom(cls, i) ==
  IF i > Len(cls.masks)
  THEN {<<>>, <<<<"bogus", PyInt(7)>>>>}
  ELSE FieldsFrom(cls, i + 1)
         \cup {<<<<cls.masks[i][1], PyInt(v)>>>> \o rest :
                 v \in {x \in {1, 2, 5} : x <= Full(cls.masks[i][2])}
                        \cup {Full(cls.masks[i][2]), Full(cls.masks[i][2]) + 1},
                 rest \in FieldsFrom(cls, i + 1)}

\* The arguments a class is called with: positional ones and keywords.
Calls(cls) ==
  CASE cls.k = "record" -> {[a |-> <<>>, kwargs |-> kw] : kw \in KwargsFrom(cls, 1)}
    [] cls.k = "bitmasked" -> {[a |-> <<>>, kwargs |-> kw] : kw \in FieldsFrom(cls, 1)}
    [] cls.k = "choice" ->
         {[a |-> <<t>>, kwargs |-> <<>>] : t \in Tags}
           \cup {[a |-> <<t, v>>, kwargs |-> <<>>] : t \in Tags, v \in Objects}

\* The attribute paths from a Choice class of the catalog to a Variant:
\* Inner.V and Outer.Inner.V.
Paths ==
  LET choices == {c \in catalog : c.k = "choice"}
      names(c) == {c.variants[i][2].name : i \in 1..Len(c.variants)}
      inner(o) == {c \in choices : \E j \in 1..Len(o.variants) : o.variants[j][2] = c}
  IN  UNION {{<<c, v>> : v \in names(c)} : c \in choices}
        \cup UNION {UNION {{<<o, c.name, v>> : v \in names(c)} : c \in inner(o)} :
                      o \in choices}

\* The Variant an attribute path leads to.
resolve(path) ==
  IF Len(path) = 2 THEN getattr(path[1], path[2])
  ELSE getattr(getattr(path[1], path[2]), path[3])

MaxAssign == 2

ObjInit ==
  /\ pc = "idle"
  /\ args = None
  /\ coder = None
  /\ value = None
  /\ extra = [assigned |-> 0, name |-> "", to |-> 0, was |-> None]
  /\ stream = StringIO(<<>>)
  /\ wrote = None
  /\ got = None
  /\ creation_counter = 0
  /\ attrs = <<>>
  /\ declared = <<>>
  /\ members = None
  /\ catalog = Loaded
  /\ _parent_choice = <<>>

\* class C(Choice): variants = {...}, the next class statement of Program.
DefineChoice ==
  /\ pc = "idle"
  /\ \E i \in 1..Len(Program) :
       /\ Program[i] \notin catalog
       /\ \A j \in 1..(i - 1) : Program[j] \in catalog
       /\ catalog' = catalog \cup {Program[i]}
       /\ _parent_choice' = make_variants(_parent_choice, Program[i], 1)
  /\ UNCHANGED <<pc, codecVars, schemaVars>>

\* The object made by a call is kept, or the call raised.
Keep(how, cls, r) ==
  /\ args' = how
  /\ coder' = cls
  /\ value' = r.val
  /\ got' = r
  /\ pc' = IF r.ok THEN "made" ELSE "raised"
  /\ UNCHANGED <<extra, stream, wrote, schemaVars, classVars>>

\* Inner.V(*args, **kwargs) and Outer.Inner.V(*args, **kwargs)
VariantCall ==
  /\ pc = "idle"
  /\ \E path \in Paths :
       \E call \in Calls(Variant_obj(resolve(path))) :
         Keep([via |-> "variant", path |-> path, a |-> call.a, kwargs |-> call.kwargs],
              path[1],
              create_choice(_parent_choice, resolve(path), call.a, call.kwargs))

\* C(tag) and C(tag, value) on a Choice class of the catalog.
ChoiceCall ==
  /\ pc = "idle"
  /\ \E cls \in {c \in catalog : c.k = "choice"} :
       \E call \in Calls(cls) :
         Keep([via |-> "class", path |-> <<cls>>, a |-> call.a, kwargs |-> call.kwargs],
              cls, type_call(cls, call.a, call.kwargs))

\* R(**kwargs) on a Record class and F(**kwargs) on a BitMaskedInteger class
\* of the catalog.
ClassCall ==
  /\ pc = "idle"
  /\ \E cls \in {c \in catalog : c.k \in {"record", "bitmasked"}} :
       \E call \in Calls(cls) :
         Keep([via |-> "class", path |-> <<cls>>, a |-> call.a, kwargs |-> call.kwargs],
              cls, type_call(cls, call.a, call.kwargs))

\* C.read_from(StringIO(buf)) on a Choice class of the catalog.
ChoiceRead ==
  /\ pc = "idle"
  /\ \E cls \in {c \in catalog : c.k = "choice"}, buf \in Sources :
       Keep([via |-> "read", path |-> <<cls>>, a |-> <<buf>>, kwargs |-> <<>>],
            cls, ReadMade(ChoiceBase_read_from(cls, StringIO(buf)), None))

\* choice.tag = tag
SetTag ==
  /\ pc = "made"
  /\ value.k = "choice"
  /\ extra.assigned < MaxAssign
  /\ \E tag \in Tags : value' = [value EXCEPT !.tag = tag]
  /\ extra' = [extra EXCEPT !.assigned = extra.assigned + 1]
  /\ UNCHANGED <<pc, args, coder, stream, wrote, got, schemaVars, classVars>>

\* choice.value = value
SetValue ==
  /\ pc = "made"
  /\ value.k = "choice"
  /\ extra.assigned < MaxAssign
  /\ \E v \in Objects : value' = [value EXCEPT !.value = v]
  /\ extra' = [extra EXCEPT !.assigned = extra.assigned + 1]
  /\ UNCHANGED <<pc, args, coder, stream, wrote, got, schemaVars, classVars>>

\* The values assigned to the field of a mask, one of them too wide for it.
FieldValues(mask) == {0, 1, 2, Full(mask), Full(mask) + 1}

\* instance.name = v on a BitMaskedInteger that was made with at most one
\* keyword; extra keeps the assignment and the instance as it was before.
SetField ==
  /\ pc = "made"
  /\ value.k = "bits"
  /\ Len(args.kwargs) <= 1
  /\ extra.assigned < MaxAssign
  /\ \E i \in 1..Len(value.cls.masks) :
       \E v \in FieldValues(value.cls.masks[i][2]) :
         /\ value' = BitMask_set(mask_of(value.cls, value.cls.masks[i][1]), value, v)
         /\ extra' = [assigned |-> extra.assigned + 1,
                      name |-> value.cls.masks[i][1], to |-> v, was |-> value]
  /\ UNCHANGED <<pc, args, coder, stream, wrote, got, schemaVars, classVars>>

\* value.write_to(StringIO())
ObjWrite ==
  /\ pc = "made"
  /\ wrote' = write_to(value.cls, value, StringIO(<<>>))
  /\ stream' = wrote'.stream
  /\ pc' = "written"
  /\ UNCHANGED <<args, coder, value, extra, got, schemaVars, classVars>>

\* type(value).decode(stream.getvalue()) on what was written.
ObjDecode ==
  /\ pc = "written"
  /\ wrote.ok
  /\ got' = decode(value.cls, getvalue(stream))
  /\ pc' = "reread"
  /\ UNCHANGED <<args, coder, value, extra, stream, wrote, schemaVars, classVars>>

ObjNext ==
  \/ DefineChoice
  \/ ClassCall
  \/ ObjDecode
  \/ VariantCall
  \/ ChoiceCall
  \/ ChoiceRead
  \/ SetTag
  \/ SetValue
  \/ SetField
  \/ ObjWrite

SpecObject == ObjInit /\ [][ObjNext]_vars

\* The value a Choice holds is an instance of the variant registered under
\* the tag it holds.
HeldValueMatches(c) ==
  /\ variants_get(c.cls, c.tag) # None
  /\ isinstance(c.value, variants_get(c.cls, c.tag))

\* C11: in every state of a Choice instance (made through a variant, made
\* from a tag and a value, read from a source, or assigned to afterwards)
\* the held value is an instance of the variant registered under the held
\* tag.
C11_HeldValueMatchesTag ==
  (pc \in {"made", "written", "reread"} /\ value.k = "choice")
    => HeldValueMatches(value)

\* C11, for the Choices made through a variant or read from a source, and
\* not assigned to.
C11_MadeByVariantOrRead ==
  (/\ pc \in {"made", "written", "reread"}
   /\ value.k = "choice"
   /\ args.via \in {"variant", "read"}
   /\ extra.assigned = 0) => HeldValueMatches(value)

\* C11, second part: no Choice is written as its tag followed by the bytes
\* of a value that is no instance of the variant registered under the tag.
C11_NoMismatchWritten ==
  (pc \in {"written", "reread"} /\ value.k = "choice" /\ wrote.ok)
    => HeldValueMatches(value)

\* The member of the tag enumeration of cls that stands for the variant
\* with the given __name__.
TagOf(cls, name) ==
  Enumeration_call(cls.tag_enum,
                   cls.variants[CHOOSE i \in 1..Len(cls.variants) :
                                  cls.variants[i][2].name = name][1]).val

\* What Outer.Inner.V(args) is to be for the path <<Outer, Inner, V>>: an
\* Outer that holds Inner's tag and an Inner that holds V's tag and V(args).
Nested(path, a, kwargs) ==
  LET Inner == Variant_obj(getattr(path[1], path[2]))
  IN  Choice_of(path[1], TagOf(path[1], path[2]),
                Choice_of(Inner, TagOf(Inner, path[3]),
                          type_call(Variant_obj(getattr(Inner, path[3])),
                                    a, kwargs).val))

\* C12: Outer.Inner.V(args) is an Outer whose tag is Inner's tag in Outer and
\* whose value is an Inner whose tag is V's tag in Inner and whose value is
\* V(args).
C12_NestedVariantCall ==
  (pc = "made" /\ extra.assigned = 0 /\ args.via = "variant" /\ Len(args.path) = 3)
    => value = Nested(args.path, args.a, args.kwargs)

\* The class statement of the Choice cls ran after that of every other
\* Choice of the catalog that lists the class named inner as a variant.
LastListing(cls, inner) ==
  \A i, j \in 1..Len(Program) :
    (/\ Program[i] = cls
     /\ Program[j] \in catalog
     /\ \E n \in 1..Len(Program[j].variants) : Program[j].variants[n][2].name = inner)
      => j <= i

\* C12, when Outer is the Choice listing Inner that was defined last.
C12_LastOuter ==
  (/\ pc = "made" /\ extra.assigned = 0
   /\ args.via = "variant" /\ Len(args.path) = 3
   /\ LastListing(args.path[1], args.path[2]))
    => value = Nested(args.path, args.a, args.kwargs)

\* Command.General.GetStatus(is_active=True, uptime=0x1234) was called when
\* Command was the last Choice defined.
C12_Example ==
  /\ pc = "made"
  /\ args.via = "variant"
  /\ args.path = <<Command, "General", "GetStatus">>
  /\ Query \notin catalog
  /\ value.cls = Command
  /\ value.value.value.fields["uptime"] = PyInt(4660)

\* What Inner.V(args) is to be for the path <<Inner, V>>: an Inner that
\* holds V's tag and V(args).
Direct(path, a, kwargs) ==
  Choice_of(path[1], TagOf(path[1], path[2]),
            type_call(Variant_obj(getattr(path[1], path[2])), a, kwargs).val)

\* The Choice classes of the catalog that list the Choice inner as a variant.
Outers(inner) ==
  {c \in catalog : c.k = "choice"
                     /\ \E n \in 1..Len(c.variants) : c.variants[n][2] = inner}

\* C29: whatever Choice classes listing G were defined, G.V(args) is a G
\* that holds V's tag and V(args), and Outer.G.V(args) is an instance of
\* that Outer.
C29_ListingLeavesInner ==
  (pc = "made" /\ extra.assigned = 0 /\ args.via = "variant") =>
    /\ Len(args.path) = 2 => value = Direct(args.path, args.a, args.kwargs)
    /\ Len(args.path) = 3 => isinstance(value, args.path[1])

\* C29 holds of G.V(args) as long as no Choice of the catalog lists G.
C29_Unlisted ==
  (/\ pc = "made" /\ extra.assigned = 0
   /\ args.via = "variant" /\ Len(args.path) = 2
   /\ Outers(args.path[1]) = {})
    => value = Direct(args.path, args.a, args.kwargs)

\* Once Choices that list G are defined, G.V(args) is what Outer.G.V(args)
\* is to be for the Outer that was defined last, and no G.
C29_InnerGivesLastOuter ==
  (/\ pc = "made" /\ extra.assigned = 0
   /\ args.via = "variant" /\ Len(args.path) = 2)
    => \A o \in Outers(args.path[1]) :
         LastListing(o, args.path[1].name)
           => /\ value = Nested(<<o, args.path[1].name, args.path[2]>>,
                                args.a, args.kwargs)
              /\ ~isinstance(value, args.path[1])

\* The value the keywords give for the field called name, a natural number.
Given(kwargs, name) ==
  IntOf(kwargs[CHOOSE i \in 1..Len(kwargs) : kwargs[i][1] = name][2])

\* The keywords give every field of the class a value that fits the field.
FitsEveryField(cls, kwargs) ==
  \A i \in 1..Len(cls.masks) :
    /\ \E j \in 1..Len(kwargs) : kwargs[j][1] = cls.masks[i][1]
    /\ Given(kwargs, cls.masks[i][1]) <= Full(cls.masks[i][2])

RECURSIVE Backing(_, _, _)
\* The values of the fields from the i-th on, each at the lowest bit of its
\* mask, added up (the masks do not overlap).
Backing(cls, kwargs, i) ==
  IF i > Len(cls.masks) THEN 0
  ELSE Given(kwargs, cls.masks[i][1]) * (2 ^ lowest_one(cls.masks[i][2]))
         + Backing(cls, kwargs, i + 1)

\* The example: packet_type, protocol, request_ack, field_d = 2, 1, 1, 5.
ExampleFlags ==
  <<<<"packet_type", PyInt(2)>>, <<"protocol", PyInt(1)>>,
    <<"request_ack", PyInt(1)>>, <<"field_d", PyInt(5)>>>>

\* C17: a BitMaskedInteger constructed with a fitting value for every field
\* reads every field back as given, is written as the integer that has each
\* value at the lowest bit of its mask, and is decoded from those bytes as
\* an equal instance; the example fields 2, 1, 1, 5 of Flags are the byte
\* 0x9D.
C17_BitFields ==
  (/\ pc \in {"made", "written", "reread"}
   /\ value.k = "bits"
   /\ args.via = "class"
   /\ extra.assigned = 0
   /\ FitsEveryField(coder, args.kwargs)) =>
    /\ \A i \in 1..Len(coder.masks) :
         BitMask_get(mask_of(coder, coder.masks[i][1]), value)
           = Given(args.kwargs, coder.masks[i][1])
    /\ IntOf(value._value) = Backing(coder, args.kwargs, 1)
    /\ pc \in {"written", "reread"} =>
         /\ wrote.ok
         /\ IntOf(IntBE(getvalue(stream))) = Backing(coder, args.kwargs, 1)
         /\ Len(getvalue(stream)) = coder.width.int
    /\ pc = "reread" => got.ok /\ got.val = value /\ got.rest = <<>>
    /\ (pc = "written" /\ coder = Flags /\ args.kwargs = ExampleFlags) =>
         getvalue(stream) = <<157>>

\* The example Flags was written as 0x9D and decoded from it.
C17_Witness ==
  /\ pc = "reread"
  /\ coder = Flags
  /\ args.kwargs = ExampleFlags
  /\ getvalue(stream) = <<157>>
  /\ got.ok /\ got.val = value

\* The keywords name the member.
Named(kwargs, name) == \E i \in 1..Len(kwargs) : kwargs[i][1] = name

\* The value the keywords give the member.
Supplied(kwargs, name) ==
  kwargs[CHOOSE i \in 1..Len(kwargs) : kwargs[i][1] = name][2]

\* C20: calling a Record class with keywords makes an instance whose
\* attributes are exactly the members of the class: a member the keywords
\* name holds the supplied value, every other member holds the
\* default_value() of its coder, and a keyword that names no member is not
\* stored and raises nothing.
C20_RecordConstruction ==
  (/\ pc \in {"made", "raised"}
   /\ args.via = "class"
   /\ coder.k = "record") =>
    /\ pc = "made"
    /\ isinstance(value, coder)
    /\ DOMAIN value.fields = member_names(coder)
    /\ \A name \in member_names(coder) :
         value.fields[name] =
           IF Named(args.kwargs, name)
           THEN Supplied(args.kwargs, name)
           ELSE default_value(member_coder(coder, name)).val

\* Header(size=0x1234, bogus=7): size is as given, barker and inverted_size
\* are the defaults of their coders, and bogus is not an attribute.
C20_Witness ==
  /\ pc = "made"
  /\ coder = Header
  /\ args.kwargs = <<<<"size", PyInt(4660)>>, <<"bogus", PyInt(7)>>>>
  /\ value.fields = [barker |-> IntBE(<<202, 254, 190, 239>>),
                     size |-> PyInt(4660), inverted_size |-> PyInt(0)]

\* A field of a BitMaskedInteger has just been assigned.
Assigned == pc = "made" /\ value.k = "bits" /\ extra.assigned > 0

\* C23: assigning b to a field that reads a makes the field read a | b cut
\* to the width of the field, and every bit of the backing integer that was
\* 1 before the assignment is 1 after it.
C23_AssignmentOrsBits ==
  Assigned =>
    LET field == mask_of(value.cls, extra.name)
    IN  /\ BitMask_get(field, value)
             = BitAnd(BitOr(BitMask_get(field, extra.was), extra.to), Full(field.mask))
        /\ BitAnd(IntOf(extra.was._value), IntOf(value._value))
             = IntOf(extra.was._value)

\* field_d of Flags was set to 5 and then to 2, and reads 7.
C23_Witness ==
  /\ pc = "made" /\ coder = Flags
  /\ args.kwargs = <<<<"field_d", PyInt(5)>>>>
  /\ extra.assigned = 1 /\ extra.name = "field_d" /\ extra.to = 2
  /\ BitMask_get(mask_of(Flags, "field_d"), value) = 7

\* The masks of the class share no bit.
NonOverlapping(cls) ==
  \A i, j \in 1..Len(cls.masks) :
    i # j => BitAnd(cls.masks[i][2], cls.masks[j][2]) = 0

\* C28: assigning a field of a BitMaskedInteger whose masks do not overlap
\* leaves every other field reading what it read before, and changes no
\* bit of the backing integer outside the mask of the assigned field.
C28_AssignmentFrame ==
  (Assigned /\ NonOverlapping(value.cls)) =>
    LET field == mask_of(value.cls, extra.name)
    IN  /\ \A i \in 1..Len(value.cls.masks) :
             value.cls.masks[i][1] # extra.name =>
               BitMask_get(BitMask(value.cls.masks[i][2]), value)
                 = BitMask_get(BitMask(value.cls.masks[i][2]), extra.was)
        /\ \A bit \in 0..(8 * value.cls.width.int - 1) :
             BitAnd(field.mask, 2 ^ bit) = 0 =>
               BitAnd(IntOf(value._value), 2 ^ bit)
                 = BitAnd(IntOf(extra.was._value), 2 ^ bit)

\* Flags made with request_ack = 1 had field_d, the field below it, set to
\* 8, which is too wide for its three bits; request_ack still reads 1 and
\* the backing integer is unchanged.
C28_Witness ==
  /\ pc = "made" /\ coder = Flags
  /\ args.kwargs = <<<<"request_ack", PyInt(1)>>>>
  /\ extra.assigned = 1 /\ extra.name = "field_d" /\ extra.to = 8
  /\ BitMask_get(mask_of(Flags, "request_ack"), value) = 1
  /\ IntOf(value._value) = 8

\* The coders whose write_to writes the parts of the value one after another.
Composite(c) == c.k \in {"record", "choice", "sequence"}

\* C27: when the write of a Record, a Choice or a Sequence fails, the stream
\* holds what it held before the call, here nothing: no byte of an earlier
\* member, of the tag, of the length prefix or of an earlier element.
C27_FailedWriteLeavesSink ==
  (pc = "failed" /\ Composite(coder)) => getvalue(stream) = <<>>

\* A write that fails in a coder that is not composite, or in the validate
\* of a Sequence before anything is written, leaves the stream as it was.
C27_FailedBeforeWriting ==
  (/\ pc = "failed"
   /\ \/ ~Composite(coder) /\ coder.k # "char"
      \/ coder.k = "sequence" /\ ~Sequence_validate(coder, value))
    => getvalue(stream) = <<>>

\* What a failed composite write leaves behind: the length prefix and the
\* first element of a Sequence whose second element is refused, the bytes
\* of the first member of a Record whose second member is refused, and the
\* tag of a Choice whose value is refused.
C27_PartlyWritten ==
  pc = "failed" =>
    /\ (coder = Counted /\ value = List(<<PyInt(18), PyInt(256)>>))
          => getvalue(stream) = <<2, 18>>
    /\ (coder = Listing /\ value.fields["items"] = List(<<PyInt(18)>>))
          => getvalue(stream) = <<1, 18>>
    /\ (coder = Envelope /\ AsInt(value.tag) = PyInt(2)
          /\ value.value.fields["data"] = List(<<PyInt(256), PyInt(18)>>))
          => getvalue(stream) = <<2>>

(***************************************************************************)
(* SpecChoice: a class statement defines a Choice with some number of      *)
(* variants under consecutive tags, an instance of a declared variant is   *)
(* made, written and decoded from what was written.                        *)
(***************************************************************************)
\* The tag_width of the class body: none, or 1 or 2 bytes.
TagWidths == {None, Length(1), Length(2)}

\* The numbers of variants, around the number of values of a 1-byte tag.
Counts == {0, 1, 2, 255, 256, 257}

\* The lowest declared tag.
FirstTags == {0, 1, 200, 300}

\* The i-th variant class: a Record without members.
Kind(i) == RecordClass("Kind" \o ToString(i), <<>>)

\* The variants dict of n classes under the tags first, first + 1, ...
Declared(n, first) ==
  Variants([i \in 1..n |-> <<PyInt(first + i - 1), Kind(i)>>])

\* class Big(Choice): tag_width = ...; variants = {...}
ChoiceDefine ==
  /\ pc = "new"
  /\ \E tag_width \in TagWidths, n \in Counts, first \in FirstTags :
       LET made == ChoiceBase_new("Big", tag_width, Declared(n, first))
       IN  /\ args' = [tag_width |-> tag_width, count |-> n, first |-> first,
                       a |-> <<>>]
           /\ coder' = made
           /\ pc' = IF made.ok THEN "defined" ELSE "refused"
  /\ UNCHANGED <<value, extra, stream, wrote, got, schemaVars, classVars>>

\* Big(tag) for the lowest or the highest declared tag.
ChoiceMake ==
  /\ pc = "defined"
  /\ args.count > 0
  /\ \E tag \in {PyInt(args.first), PyInt(args.first + args.count - 1)} :
       Keep([args EXCEPT !.a = <<tag>>], coder, type_call(coder, <<tag>>, <<>>))

ChoiceNext ==
  \/ ChoiceDefine
  \/ ChoiceMake
  \/ ObjWrite
  \/ ObjDecode

SpecChoice == IntInit /\ [][ChoiceNext]_vars

\* The number of values of a tag of the declared width, 1 byte when the
\* class body declares none.
TagValues(tag_width) == 2 ^ (8 * (IF tag_width = None THEN 1 ELSE tag_width.int))

\* C25: the definition of a Choice is refused exactly when it declares more
\* variants than a tag of tag_width bytes has values, 1 byte when no
\* tag_width is declared: more variants are always refused, and as many or
\* fewer never are.
C25_VariantCount ==
  pc # "new" =>
    /\ args.count > TagValues(args.tag_width) => pc = "refused"
    /\ args.count <= TagValues(args.tag_width) => pc # "refused" /\ coder.ok
    /\ pc = "refused" => coder.err = "ValueError"

\* 257 variants without a tag_width were refused.
C25_Witness ==
  /\ pc = "refused"
  /\ args.tag_width = None
  /\ args.count = 257

\* C30: every tag of a Choice that was defined fits the declared tag_width,
\* an instance of every declared variant is written, and the tag it holds
\* is read back from what was written.
C30_TagsFit ==
  pc \notin {"new", "refused"} =>
    /\ \A i \in 1..Len(coder.variants) :
         /\ ~coder.variants[i][1].neg
         /\ IntOf(coder.variants[i][1]) < TagValues(args.tag_width)
    /\ pc # "raised"
    /\ pc \in {"written", "reread"} => wrote.ok
    /\ pc = "reread" => got.ok /\ got.val.tag = value.tag

\* C30 holds of the Choices whose tags all lie in 0..255 and whose
\* tag_width is 1 or not declared.
C30_OneByteTags ==
  \/ args # None /\ args.tag_width \notin {None, Length(1)}
  \/ args # None /\ args.first + args.count - 1 > 255
  \/ C30_TagsFit

\* Written, the tag takes one byte whatever the tag_width: an instance is
\* written exactly when its tag lies in 0..255.
C30_OneByteWritten ==
  pc = "written" => (wrote.ok <=> IntOf(AsInt(value.tag)) <= 255)

(***************************************************************************)
(* SpecDefault: an enumeration is made from a dict of members without a    *)
(* default, as an Enumeration class or as an Enum coder (src/primitives.py)*)
(* or a Choice class is taken, and its default_value() is asked for.       *)
(***************************************************************************)
EnumNames == {"a", "b", "c"}
EnumValues == {0, 1, 2, 7}

\* The members dicts: every assignment of values to some of the names.
MemberDicts == UNION {[S -> EnumValues] : S \in SUBSET EnumNames}

\* The (name, value) items of a members dict, in the order of the names.
Items(dict) ==
  LET at == {i \in 1..Len(AllNames) : AllNames[i] \in DOMAIN dict}
  IN  [r \in 1..Cardinality(at) |->
         LET i == CHOOSE i \in at : Cardinality({j \in at : j < i}) = r - 1
         IN  <<AllNames[i], PyInt(dict[AllNames[i]])>>]

\* sorted(members.keys())[0] for the items of members, as a Python str; the names are single letters
\* from "a" (0x61) on, which AllNames lists in their order.
first_key(items) ==
  LET at == {i \in 1..Len(AllNames) :
               \E j \in 1..Len(items) : items[j][1] = AllNames[i]}
  IN  Str(<<96 + CHOOSE i \in at : \A j \in at : i <= j>>)

\* Enum.__init__(members, width) of src/primitives.py, without a default.
Enum_init(items, width) ==
  Integer_init("Enum",
               IF Len(items) > 0 THEN first_key(items) ELSE None,
               width, None, None, DEFAULT_BYTE_ORDER)

\* class E(Enumeration) with the members, and E.default_value()
EnumerationDefault ==
  /\ pc = "new"
  /\ \E dict \in MemberDicts :
       /\ args' = [members |-> Items(dict)]
       /\ coder' = EnumerationMeta_new("E", None, None, Items(dict))
       /\ got' = default_value(EnumerationMeta_new("E", None, None, Items(dict)))
  /\ pc' = "defaulted"
  /\ UNCHANGED <<value, extra, stream, wrote, schemaVars, classVars>>

\* Enum(members).default_value()
EnumDefault ==
  /\ pc = "new"
  /\ \E dict \in MemberDicts :
       /\ args' = [members |-> Items(dict)]
       /\ coder' = Enum_init(Items(dict), EnumerationMeta_DEFAULT_WIDTH)
       /\ got' = default_value(Enum_init(Items(dict), EnumerationMeta_DEFAULT_WIDTH))
  /\ pc' = "defaulted"
  /\ UNCHANGED <<value, extra, stream, wrote, schemaVars, classVars>>

\* C.default_value() on a Choice class.
ChoiceDefault ==
  /\ pc = "new"
  /\ \E cls \in {General, Command, Query, Envelope} :
       /\ args' = [members |-> cls.tag_enum.members]
       /\ coder' = cls
       /\ got' = default_value(cls)
  /\ pc' = "defaulted"
  /\ UNCHANGED <<value, extra, stream, wrote, schemaVars, classVars>>

DefaultNext ==
  \/ EnumerationDefault
  \/ EnumDefault
  \/ ChoiceDefault

SpecDefault == IntInit /\ [][DefaultNext]_vars

\* The lowest of the values of the (name, value) items.
LowestValue(items) ==
  LET values == {items[i][2] : i \in 1..Len(items)}
  IN  CHOOSE v \in values : \A w \in values : ~IntLT(w, v)

\* C26: the default value of an enumeration that has members and was given
\* no default is the member with the lowest value, and the default value of
\* a Choice is an instance that holds the lowest tag and the default value
\* of the variant registered under it.
C26_LowestMemberDefault ==
  pc = "defaulted" =>
    /\ (coder.k \in {"enumeration", "integer"} /\ Len(args.members) > 0) =>
         /\ got.ok
         /\ got.val.k \in {"int", "enum"}
         /\ AsInt(got.val) = LowestValue(args.members)
    /\ coder.k = "choice" =>
         /\ got.ok
         /\ isinstance(got.val, coder)
         /\ AsInt(got.val.tag) = LowestValue(args.members)
         /\ got.val.value
              = default_value(variants_get(coder, LowestValue(args.members))).val

\* C26 holds of the Enumeration classes and of the Choice classes.
C26_EnumerationAndChoice ==
  (coder # None /\ coder.k # "integer") => C26_LowestMemberDefault

\* The default of an Enum coder is the first of the sorted names, a str.
C26_EnumFirstName ==
  (pc = "defaulted" /\ coder.k = "integer" /\ Len(args.members) > 0) =>
    got.ok /\ got.val = first_key(args.members)

====
